---- MODULE Spec2Model ----
(***************************************************************************)
(* A model of translate.py (TranslationScript): the scan of Dart source   *)
(* files for user-facing string literals, the update of the ARB catalog,  *)
(* the rewrite of the call sites and the TODO comments for literals that   *)
(* were excluded.                                                          *)
(*                                                                         *)
(* A Python str is a sequence of one-character strings, so that slicing,   *)
(* str.find and the regular expressions of the script are computed as the  *)
(* script computes them.  A regular expression is a sequence of elements   *)
(* that the backtracking matcher Rx interprets in the preference order of  *)
(* Python's re module (greedy: longest first; lazy: shortest first).       *)
(***************************************************************************)
EXTENDS Integers, Sequences, FiniteSets, TLC

\* ------------------------------------------------------------------ bounds
\* The longest file of the scanned tree, in lines.
MaxLines == 2
\* The number of times run() is executed on the same tree and catalog.
MaxRuns == 2

\* ------------------------------------------------------------ the call log
\* history: the calls of generate_key_from_string made so far, each with its
\* text, its result, the run and the function that made it
VARIABLES key_calls

\* ------------------------------------------------------------- characters
Lower == {"a","b","c","d","e","f","g","h","i","j","k","l","m",
          "n","o","p","q","r","s","t","u","v","w","x","y","z"}
Upper == {"A","B","C","D","E","F","G","H","I","J","K","L","M",
          "N","O","P","Q","R","S","T","U","V","W","X","Y","Z"}
Digit == {"0","1","2","3","4","5","6","7","8","9"}
Alpha == Lower \cup Upper
\* Python's \s and str.isspace on the characters a source line can hold.
Space == {" ", "\t", "\n", "\r"}
\* Python's \w on ASCII text.
WordCh == Alpha \cup Digit \cup {"_"}
Quotes == {"'", "\""}

LowerOf == ("A" :> "a") @@ ("B" :> "b") @@ ("C" :> "c") @@ ("D" :> "d") @@
           ("E" :> "e") @@ ("F" :> "f") @@ ("G" :> "g") @@ ("H" :> "h") @@
           ("I" :> "i") @@ ("J" :> "j") @@ ("K" :> "k") @@ ("L" :> "l") @@
           ("M" :> "m") @@ ("N" :> "n") @@ ("O" :> "o") @@ ("P" :> "p") @@
           ("Q" :> "q") @@ ("R" :> "r") @@ ("S" :> "s") @@ ("T" :> "t") @@
           ("U" :> "u") @@ ("V" :> "v") @@ ("W" :> "w") @@ ("X" :> "x") @@
           ("Y" :> "y") @@ ("Z" :> "z")

\* ---------------------------------------------------------------- str ops
\* An Optional[str] is a list of at most one str: None is the empty list.
None == <<>>
Some(s) == <<s>>
\* The truth value Python gives an Optional[str]: None and '' are false.
Truthy(o) == o # <<>> /\ o[1] # <<>>

\* s[a:b] with 1-based a, exclusive b already clamped by the caller.
Slice(s, a, b) == SubSeq(s, a, b - 1)

\* s[a:] with 1-based a.
From(s, a) == SubSeq(s, a, Len(s))

\* s.startswith(t, i-1): t occurs in s at 1-based position i.
StartsAt(s, t, i) ==
    /\ i >= 1
    /\ i + Len(t) - 1 <= Len(s)
    /\ \A j \in 1..Len(t) : s[i + j - 1] = t[j]

\* s.find(t, i-1) as a 1-based position; 0 stands for Python's -1.
FindFrom(s, t, i) ==
    LET hits == {p \in i..(Len(s) - Len(t) + 1) : StartsAt(s, t, p)}
    IN  IF hits = {} THEN 0 ELSE CHOOSE p \in hits : \A r \in hits : p <= r

\* s.find(t)
Find(s, t) == FindFrom(s, t, 1)

\* t in s
Contains(s, t) == Find(s, t) # 0

\* s.lower()
ToLower(s) == [j \in 1..Len(s) |-> IF s[j] \in Upper THEN LowerOf[s[j]] ELSE s[j]]

\* s.strip()
Strip(s) ==
    LET keep == {j \in 1..Len(s) : s[j] \notin Space}
    IN  IF keep = {} THEN <<>>
        ELSE SubSeq(s, CHOOSE a \in keep : \A r \in keep : a <= r,
                       CHOOSE b \in keep : \A r \in keep : b >= r)

\* s.isdigit()
IsDigitStr(s) == Len(s) > 0 /\ \A j \in 1..Len(s) : s[j] \in Digit

\* s.isalpha()
IsAlphaStr(s) == Len(s) > 0 /\ \A j \in 1..Len(s) : s[j] \in Alpha

\* The characters of s that satisfy keep, in order: re.sub of a one-character
\* class by the empty string.
FilterCh(s, drop) == SelectSeq(s, LAMBDA c : c \notin drop)

\* s.split(): the maximal runs of non-whitespace characters.
Split(s) ==
    LET nth(of, n) == CHOOSE j \in of : Cardinality({r \in of : r < j}) = n - 1
        words(first, last) ==
            <<>> \o [n \in 1..Cardinality(first) |-> SubSeq(s, nth(first, n), nth(last, n))]
    IN  words({j \in 1..Len(s) : s[j] \notin Space /\ (j = 1 \/ s[j - 1] \in Space)},
              {j \in 1..Len(s) : s[j] \notin Space /\ (j = Len(s) \/ s[j + 1] \in Space)})

\* sep.join(parts)
RECURSIVE Join(_, _)
Join(sep, parts) ==
    IF parts = <<>> THEN <<>>
    ELSE IF Len(parts) = 1 THEN parts[1]
    ELSE parts[1] \o sep \o Join(sep, Tail(parts))

\* The concatenation of a list of strings: f.writelines / ''.join.
RECURSIVE Concat(_)
Concat(parts) == IF parts = <<>> THEN <<>> ELSE Head(parts) \o Concat(Tail(parts))

\* str(n) for the small non-negative integers the script formats.
RECURSIVE IntStr(_)
IntStr(n) ==
    LET d == <<"0","1","2","3","4","5","6","7","8","9">>
    IN  IF n < 10 THEN <<d[n + 1]>> ELSE IntStr(n \div 10) \o <<d[(n % 10) + 1]>>

\* -------------------------------------------------------------- re module
\* Elements of a pattern.  A class is a set cs with a flag neg ([^...]).
Lit(s)        == [k |-> "lit", s |-> s]
One(cs)       == [k |-> "one", neg |-> FALSE, cs |-> cs]
NotOne(cs)    == [k |-> "one", neg |-> TRUE, cs |-> cs]
Star(cs)      == [k |-> "rep", neg |-> FALSE, cs |-> cs, min |-> 0, lazy |-> FALSE]
Plus(cs)      == [k |-> "rep", neg |-> FALSE, cs |-> cs, min |-> 1, lazy |-> FALSE]
NotStar(cs)   == [k |-> "rep", neg |-> TRUE, cs |-> cs, min |-> 0, lazy |-> FALSE]
NotPlus(cs)   == [k |-> "rep", neg |-> TRUE, cs |-> cs, min |-> 1, lazy |-> FALSE]
\* .*? : without re.DOTALL the dot excludes the newline.
LazyDot       == [k |-> "rep", neg |-> TRUE, cs |-> {"\n"}, min |-> 0, lazy |-> TRUE]
LazyDotAll    == [k |-> "rep", neg |-> TRUE, cs |-> {}, min |-> 0, lazy |-> TRUE]
Open(g)       == [k |-> "open", g |-> g]
Close(g)      == [k |-> "close", g |-> g]
Ref(g)        == [k |-> "ref", g |-> g]
NotBehind(cs) == [k |-> "nlb", cs |-> cs]
NotAhead(cs)  == [k |-> "nla", cs |-> cs]
Bol           == [k |-> "bol"]
Eol           == [k |-> "eol"]
\* \s*
Ws            == Star(Space)

InClass(c, e) == (c \in e.cs) # e.neg

\* The number of consecutive characters of s from position i that are in the
\* class of element e.
RunLen(s, i, e) ==
    LET upto(out) == IF i > Len(s) THEN 0
                     ELSE IF out = {} THEN Len(s) - i + 1
                     ELSE (CHOOSE j \in out : \A r \in out : j <= r) - i
    IN  upto({j \in i..Len(s) : ~InClass(s[j], e)})

NoCaps == [g \in 1..2 |-> <<0, 0>>]

\* Rx(p, s, i, k, caps): match the elements k.. of pattern p against s from
\* position i.  The result is <<>> when there is no match, and otherwise
\* <<end, caps>>: the position after the match and, per group, the pair
\* <<first position, position after the last>>.
RECURSIVE Rx(_, _, _, _, _)
RECURSIVE RxRep(_, _, _, _, _, _, _)
Rx(p, s, i, k, caps) ==
    IF k > Len(p) THEN <<i, caps>>
    ELSE LET e == p[k] IN
      CASE e.k = "lit" ->
             IF StartsAt(s, e.s, i) THEN Rx(p, s, i + Len(e.s), k + 1, caps) ELSE <<>>
        [] e.k = "one" ->
             IF i <= Len(s) /\ InClass(s[i], e) THEN Rx(p, s, i + 1, k + 1, caps) ELSE <<>>
        [] e.k = "rep" ->
             LET mx == RunLen(s, i, e)
             IN  IF mx < e.min THEN <<>>
                 ELSE RxRep(p, s, i, k, caps, IF e.lazy THEN e.min ELSE mx, mx)
        [] e.k = "open" ->
             Rx(p, s, i, k + 1, [caps EXCEPT ![e.g] = <<i, i>>])
        [] e.k = "close" ->
             Rx(p, s, i, k + 1, [caps EXCEPT ![e.g] = <<caps[e.g][1], i>>])
        [] e.k = "ref" ->
             LET t == Slice(s, caps[e.g][1], caps[e.g][2])
             IN  IF StartsAt(s, t, i) THEN Rx(p, s, i + Len(t), k + 1, caps) ELSE <<>>
        [] e.k = "nlb" ->
             IF i > 1 /\ s[i - 1] \in e.cs THEN <<>> ELSE Rx(p, s, i, k + 1, caps)
        [] e.k = "nla" ->
             IF i <= Len(s) /\ s[i] \in e.cs THEN <<>> ELSE Rx(p, s, i, k + 1, caps)
        [] e.k = "bol" ->
             IF i = 1 THEN Rx(p, s, i, k + 1, caps) ELSE <<>>
        [] e.k = "eol" ->
             IF i = Len(s) + 1 \/ (i = Len(s) /\ s[i] = "\n")
             THEN Rx(p, s, i, k + 1, caps) ELSE <<>>

\* The repetition p[k] taken n times, then the rest; on failure the next count
\* in preference order (one fewer when greedy, one more when lazy): the result
\* is that of the first count in that order after which the rest matches.
RxRep(p, s, i, k, caps, n, mx) ==
    LET rest(c) == Rx(p, s, i + c, k + 1, caps)
        first(ok) == IF p[k].lazy THEN CHOOSE c \in ok : \A d \in ok : c <= d
                     ELSE CHOOSE c \in ok : \A d \in ok : c >= d
        taken(ok) == IF ok = {} THEN <<>> ELSE rest(first(ok))
    IN  taken({c \in (IF p[k].lazy THEN n..mx ELSE p[k].min..n) : rest(c) # <<>>})

\* re.match(p, s): <<>> or <<end, caps>>.
ReMatch(p, s) == Rx(p, s, 1, 1, NoCaps)

\* re.search(p, s) from position i: <<>> or <<start, end, caps>> of the
\* leftmost match.
ReSearchFrom(p, s, i) ==
    LET from(j) == Rx(p, s, j, 1, NoCaps)
        at(j, r) == <<j, r[1], r[2]>>
        leftmost(hits) == IF hits = {} THEN <<>>
                          ELSE at(CHOOSE j \in hits : \A r \in hits : j <= r,
                                  from(CHOOSE j \in hits : \A r \in hits : j <= r))
    IN  leftmost({j \in i..(Len(s) + 1) : from(j) # <<>>})

ReSearch(p, s) == ReSearchFrom(p, s, 1)

\* m.group(g) of a search result on s.
Group(s, m, g) == Slice(s, m[3][g][1], m[3][g][2])

\* A replacement template is a list of literal texts and group references.
TText(s)  == [g |-> 0, s |-> s]
TGroup(g) == [g |-> g, s |-> <<>>]

RECURSIVE Expand(_, _, _)
Expand(tmpl, s, m) ==
    IF tmpl = <<>> THEN <<>>
    ELSE (IF Head(tmpl).g = 0 THEN Head(tmpl).s ELSE Group(s, m, Head(tmpl).g))
         \o Expand(Tail(tmpl), s, m)

\* re.sub(p, tmpl, s): every non-overlapping match, left to right, replaced.
\* No pattern of the script matches the empty string.
RECURSIVE ReSubFrom(_, _, _, _)
ReSubFrom(p, tmpl, s, i) ==
    LET sub(m) == IF m = <<>> \/ m[2] = m[1] THEN From(s, i)
                  ELSE Slice(s, i, m[1]) \o Expand(tmpl, s, m) \o ReSubFrom(p, tmpl, s, m[2])
    IN  sub(ReSearchFrom(p, s, i))

ReSub(p, tmpl, s) == ReSubFrom(p, tmpl, s, 1)

\* re.findall(p, s) for a pattern with one group: the list of group 1.
RECURSIVE ReFindAllFrom(_, _, _)
ReFindAllFrom(p, s, i) ==
    LET all(m) == IF m = <<>> \/ m[2] = m[1] THEN <<>>
                  ELSE <<Group(s, m, 1)>> \o ReFindAllFrom(p, s, m[2])
    IN  all(ReSearchFrom(p, s, i))

ReFindAll(p, s) == ReFindAllFrom(p, s, 1)


\* ------------------------------------------------- tables of the script
\* self.technical_patterns, in list order.
technical_patterns == <<
    <<"h","t","t","p",":","/","/">>,
    <<"h","t","t","p","s",":","/","/">>,
    <<"a","p","i","/">>,
    <<"e","n","d","p","o","i","n","t">>,
    <<"t","o","k","e","n">>,
    <<"b","e","a","r","e","r">>,
    <<"a","u","t","h","o","r","i","z","a","t","i","o","n">>,
    <<"t","o","M","a","p">>,
    <<"f","r","o","m","M","a","p">>,
    <<"j","s","o","n">>,
    <<"s","e","r","i","a","l","i","z","a","t","i","o","n">>,
    <<"d","e","s","e","r","i","a","l","i","z","a","t","i","o","n">>,
    <<"d","a","r","t",":">>,
    <<"p","a","c","k","a","g","e",":">>,
    <<"i","m","p","o","r","t">>,
    <<"e","x","p","o","r","t">>,
    <<"c","l","a","s","s">>,
    <<"e","n","u","m">>,
    <<"t","y","p","e","d","e","f">>,
    <<"c","o","n","s","t">>,
    <<"f","i","n","a","l">>,
    <<"v","a","r">>,
    <<"S","t","r","i","n","g">>,
    <<"i","n","t">>,
    <<"b","o","o","l">>,
    <<"d","o","u","b","l","e">>,
    <<"L","i","s","t">>,
    <<"M","a","p">>,
    <<"W","i","d","g","e","t">>,
    <<"B","u","i","l","d","C","o","n","t","e","x","t">>,
    <<"M","a","t","e","r","i","a","l","A","p","p">>,
    <<"S","c","a","f","f","o","l","d">>,
    <<"C","o","n","t","a","i","n","e","r">>,
    <<"C","o","l","u","m","n">>,
    <<"R","o","w">>,
    <<"T","e","x","t">>,
    <<"B","u","t","t","o","n">>,
    <<"A","p","p","B","a","r">>,
    <<"L","i","s","t","V","i","e","w">>,
    <<"d","e","b","u","g">>,
    <<"t","e","s","t">>,
    <<"m","o","c","k">>,
    <<"s","t","u","b">>,
    <<"f","i","x","t","u","r","e">>,
    <<"e","x","a","m","p","l","e">>,
    <<"T","O","D","O">>,
    <<"F","I","X","M","E">>,
    <<"H","A","C","K">>,
    <<"N","O","T","E">>,
    <<"X","X","X">>,
    <<"a","s","s","e","t","s","/">>,
    <<"l","i","b","/">>,
    <<"t","e","s","t","/">>,
    <<"a","n","d","r","o","i","d","/">>,
    <<"i","o","s","/">>,
    <<".","d","a","r","t">>,
    <<".","a","r","b">>,
    <<".","j","s","o","n">>,
    <<".","y","a","m","l">>,
    <<".","y","m","l">>,
    <<"c","o","n","t","r","o","l","l","e","r">>,
    <<"k","e","y">>,
    <<"v","a","l","u","e">>,
    <<"d","a","t","a">>,
    <<"r","e","s","p","o","n","s","e">>,
    <<"r","e","q","u","e","s","t">>,
    <<"s","t","a","t","u","s">>,
    <<"c","o","d","e">>,
    <<"i","d">>,
    <<"t","y","p","e">>,
    <<"n","a","m","e">>,
    <<"e","m","a","i","l">>,
    <<"p","a","s","s","w","o","r","d">>,
    <<"p","h","o","n","e">>,
    <<"a","d","d","r","e","s","s">>,
    <<"u","r","l">>,
    <<"u","r","i">>,
    <<"p","a","t","h">>,
    <<"f","i","l","e">>,
    <<"f","o","l","d","e","r">>,
    <<"d","i","r","e","c","t","o","r","y">>,
    <<"e","x","c","e","p","t","i","o","n">>,
    <<"e","r","r","o","r">>,
    <<"f","a","i","l","u","r","e">>,
    <<"t","i","m","e","o","u","t">>,
    <<"n","e","t","w","o","r","k">>,
    <<"s","e","r","v","e","r">>,
    <<"c","l","i","e","n","t">>,
    <<"u","n","a","u","t","h","o","r","i","z","e","d">>,
    <<"f","o","r","b","i","d","d","e","n">>,
    <<"n","o","t","_","f","o","u","n","d">>,
    <<"b","a","d","_","r","e","q","u","e","s","t">>,
    <<"i","n","t","e","r","n","a","l","_","s","e","r","v","e","r","_","e","r","r","o","r">>,
    <<"y","y","y","y","-","M","M","-","d","d">>,
    <<"H","H",":","m","m",":","s","s">>,
    <<"I","S","O">>,
    <<"U","T","C">>,
    <<"t","i","m","e","s","t","a","m","p">>,
    <<"d","a","t","e">>,
    <<"t","i","m","e">>,
    <<"d","a","t","e","t","i","m","e">>,
    <<"c","u","r","r","e","n","c","y">>,
    <<"a","m","o","u","n","t">>,
    <<"p","r","i","c","e">>,
    <<"c","o","s","t">>,
    <<"t","o","t","a","l">>,
    <<"s","u","m">>,
    <<"c","o","u","n","t">>,
    <<"n","u","m","b","e","r">>,
    <<"d","e","c","i","m","a","l">>,
    <<"i","n","t","e","g","e","r">>,
    <<"f","l","o","a","t">>,
    <<"d","o","u","b","l","e">>,
    <<"c","o","l","o","r">>,
    <<"s","t","y","l","e">>,
    <<"t","h","e","m","e">>,
    <<"f","o","n","t">>,
    <<"s","i","z","e">>,
    <<"w","i","d","t","h">>,
    <<"h","e","i","g","h","t">>,
    <<"p","a","d","d","i","n","g">>,
    <<"m","a","r","g","i","n">>,
    <<"b","o","r","d","e","r">>,
    <<"r","a","d","i","u","s">>,
    <<"s","h","a","d","o","w">>,
    <<"g","r","a","d","i","e","n","t">>,
    <<"o","p","a","c","i","t","y">>,
    <<"a","l","p","h","a">>,
    <<"r","g","b">>,
    <<"h","e","x">>
    >>

\* self.dart_keywords (a set: the repeated members count once).
dart_keywords == {
    <<"a","b","s","t","r","a","c","t">>,
    <<"e","l","s","e">>,
    <<"i","m","p","o","r","t">>,
    <<"s","h","o","w">>,
    <<"a","s">>,
    <<"e","n","u","m">>,
    <<"i","n">>,
    <<"s","u","p","e","r">>,
    <<"a","s","s","e","r","t">>,
    <<"e","x","p","o","r","t">>,
    <<"i","n","t","e","r","f","a","c","e">>,
    <<"s","w","i","t","c","h">>,
    <<"a","s","y","n","c">>,
    <<"e","x","t","e","n","d","s">>,
    <<"i","s">>,
    <<"s","y","n","c">>,
    <<"a","w","a","i","t">>,
    <<"e","x","t","e","n","s","i","o","n">>,
    <<"l","i","b","r","a","r","y">>,
    <<"t","h","i","s">>,
    <<"b","r","e","a","k">>,
    <<"e","x","t","e","r","n","a","l">>,
    <<"m","i","x","i","n">>,
    <<"t","h","r","o","w">>,
    <<"c","a","s","e">>,
    <<"f","a","c","t","o","r","y">>,
    <<"n","e","w">>,
    <<"t","r","u","e">>,
    <<"c","a","t","c","h">>,
    <<"f","a","l","s","e">>,
    <<"n","u","l","l">>,
    <<"t","r","y">>,
    <<"c","l","a","s","s">>,
    <<"f","i","n","a","l">>,
    <<"o","n">>,
    <<"t","y","p","e","d","e","f">>,
    <<"c","o","n","s","t">>,
    <<"f","i","n","a","l","l","y">>,
    <<"o","p","e","r","a","t","o","r">>,
    <<"v","a","r">>,
    <<"c","o","n","t","i","n","u","e">>,
    <<"f","o","r">>,
    <<"p","a","r","t">>,
    <<"v","o","i","d">>,
    <<"c","o","v","a","r","i","a","n","t">>,
    <<"F","u","n","c","t","i","o","n">>,
    <<"r","e","t","h","r","o","w">>,
    <<"w","h","i","l","e">>,
    <<"d","e","f","a","u","l","t">>,
    <<"g","e","t">>,
    <<"r","e","t","u","r","n">>,
    <<"w","i","t","h">>,
    <<"d","e","f","e","r","r","e","d">>,
    <<"h","i","d","e">>,
    <<"s","e","t">>,
    <<"y","i","e","l","d">>,
    <<"d","o">>,
    <<"i","f">>,
    <<"d","y","n","a","m","i","c">>,
    <<"i","m","p","l","e","m","e","n","t","s">>,
    <<"s","t","a","t","i","c">>
    }

\* is_technical_string: the user-facing words that override a technical pattern.
exception_words == <<
    <<"e","m","a","i","l">>,
    <<"p","a","s","s","w","o","r","d">>,
    <<"n","a","m","e">>,
    <<"p","h","o","n","e">>,
    <<"a","d","d","r","e","s","s">>,
    <<"t","y","p","e">>,
    <<"t","e","x","t">>
    >>

\* generate_key_from_string: the stop words.
common_words == {
    <<"t","h","e">>,
    <<"a">>,
    <<"a","n">>,
    <<"a","n","d">>,
    <<"o","r">>,
    <<"b","u","t">>,
    <<"i","n">>,
    <<"o","n">>,
    <<"a","t">>,
    <<"t","o">>,
    <<"f","o","r">>,
    <<"o","f">>,
    <<"w","i","t","h">>,
    <<"b","y">>
    }

\* is_generated_file: the path fragments of generated files.
generated_patterns == <<
    <<"g","e","n","e","r","a","t","e","d">>,
    <<"b","u","i","l","d","/">>,
    <<".","g",".","d","a","r","t">>,
    <<".","f","r","e","e","z","e","d",".","d","a","r","t">>,
    <<".","m","o","c","k","s",".","d","a","r","t">>
    >>
\* self.user_facing_patterns in the iteration order of the dict: a key that the
\* literal repeats keeps its first position and takes its last value.
user_facing_patterns == <<
    [pattern |-> <<"l","a","b","e","l",":">>, string_type |-> "LABEL"],
    [pattern |-> <<"h","i","n","t",":">>, string_type |-> "HINT"],
    [pattern |-> <<"p","r","e","f","i","x","T","e","x","t",":">>, string_type |-> "PREFIX_TEXT"],
    [pattern |-> <<"h","e","a","d","i","n","g",":">>, string_type |-> "HEADING"],
    [pattern |-> <<"b","o","d","y",":">>, string_type |-> "BODY"],
    [pattern |-> <<"y","e","s","L","a","b","e","l",":">>, string_type |-> "YES_LABEL"],
    [pattern |-> <<"c","a","n","c","e","l","L","a","b","e","l",":">>, string_type |-> "CANCEL_LABEL"],
    [pattern |-> <<"t","i","t","l","e",":">>, string_type |-> "TITLE"],
    [pattern |-> <<"T","e","x","t","(">>, string_type |-> "TEXT_WIDGET"],
    [pattern |-> <<"S","e","l","e","c","t","a","b","l","e","T","e","x","t","(">>, string_type |-> "SELECTABLE_TEXT_WIDGET"],
    [pattern |-> <<"T","o","o","l","t","i","p","(">>, string_type |-> "TOOLTIP_WIDGET"],
    [pattern |-> <<"m","e","s","s","a","g","e",":">>, string_type |-> "LABEL"],
    [pattern |-> <<"B","o","t","t","o","m","N","a","v","i","g","a","t","i","o","n","B","a","r","I","t","e","m","(">>, string_type |-> "BOTTOM_NAVIGATION_BAR_ITEM"],
    [pattern |-> <<"t","o","o","l","t","i","p",":">>, string_type |-> "TOOLTIP_WIDGET"],
    [pattern |-> <<"P","l","a","t","f","o","r","m","M","e","n","u","I","t","e","m","(">>, string_type |-> "PLATFORM_MENU_ITEM"],
    [pattern |-> <<"C","o","n","t","e","x","t","M","e","n","u","B","u","t","t","o","n","I","t","e","m","(">>, string_type |-> "CONTEXT_MENU_BUTTON_ITEM"],
    [pattern |-> <<"B","u","t","t","o","n","S","t","y","l","e","B","u","t","t","o","n","(">>, string_type |-> "BUTTON_STYLE_BUTTON"],
    [pattern |-> <<"T","i","t","l","e","(">>, string_type |-> "TITLE_WIDGET"],
    [pattern |-> <<"W","i","d","g","e","t","s","A","p","p","(">>, string_type |-> "WIDGETS_APP"],
    [pattern |-> <<"T","e","x","t","S","p","a","n","(">>, string_type |-> "TEXT_SPAN"],
    [pattern |-> <<"t","e","x","t",":">>, string_type |-> "TEXT_SPAN"],
    [pattern |-> <<"s","e","m","a","n","t","i","c","s","L","a","b","e","l",":">>, string_type |-> "TEXT_SPAN"],
    [pattern |-> <<"e","r","r","o","r",":">>, string_type |-> "LABEL"]
    >>

\* is_technical_string: the class of the special-characters pattern.
SpecialCh == Digit \cup Space \cup
    {"-", "_", ".", ",", "!", "@", "#", "$", "%", "^", "&", "*", "(", ")",
     "[", "]", "{", "}", "|", ":", ";", "'", "\"", "<", ">", "?", "/", "\\"}

technical_patterns_lower == [j \in 1..Len(technical_patterns) |-> ToLower(technical_patterns[j])]

\* is_technical_string: the exclusion reason of a literal, "None" when it is
\* accepted.  The rules are tried in the order of the code.
is_technical_string(string) ==
    LET low == ToLower(string) IN
    IF Len(string) = 1 /\ IsAlphaStr(string) THEN "TOO_SHORT"
    ELSE IF IsDigitStr(string) THEN "TOO_SHORT"
    ELSE IF ReMatch(<<Bol, Plus(SpecialCh), Eol>>, string) # <<>> THEN "SPECIAL_CHARACTERS"
    ELSE IF /\ \E j \in 1..Len(technical_patterns_lower) :
                  Contains(low, technical_patterns_lower[j])
            /\ ~ \E w \in 1..Len(exception_words) : Contains(low, exception_words[w])
         THEN "TECHNICAL_PATTERN"
    ELSE IF \/ ReMatch(<<Bol, One(Lower), Star(Alpha \cup Digit), Eol>>, string) # <<>>
            \/ ReMatch(<<Bol, One(Lower), Star(Lower \cup Digit \cup {"_"}), Eol>>, string) # <<>>
         THEN "VARIABLE_NAME"
    ELSE IF ReMatch(<<Bol, Plus(Upper \cup {"_"}), Eol>>, string) # <<>> THEN "CONSTANT_NAME"
    ELSE IF (\E j \in 1..Len(string) : string[j] \in {"(", ")"}) /\ ~Contains(string, <<"$","{">>)
         THEN "CODE_PATTERN"
    ELSE "None"

\* [a-zA-Z_][a-zA-Z0-9_]* : a bare identifier.
Ident == <<One(Alpha \cup {"_"}), Star(WordCh)>>
\* quote, any number of non-quotes, quote.
QuotedLit == <<One(Quotes), NotStar(Quotes), One(Quotes)>>
PlusOp == <<Ws, Lit(<<"+">>), Ws>>

\* is_string_concatenation
is_string_concatenation(line) ==
    \/ ReSearch(QuotedLit \o PlusOp \o QuotedLit, line) # <<>>
    \/ ReSearch(QuotedLit \o PlusOp \o Ident, line) # <<>>
    \/ ReSearch(Ident \o PlusOp \o QuotedLit, line) # <<>>

\* is_comment_line
is_comment_line(line) ==
    LET stripped == Strip(line)
    IN  \/ StartsAt(stripped, <<"/","/">>, 1)
        \/ StartsAt(stripped, <<"/","*">>, 1)
        \/ StartsAt(stripped, <<"*">>, 1)

\* A variant of is_generated_file that takes no file as generated.
is_generated_never(file_path) == FALSE

\* is_generated_file
is_generated_file(file_path) ==
    \E j \in 1..Len(generated_patterns) : Contains(ToLower(file_path), generated_patterns[j])

\* The common tail of extract_string_from_text_widget, _selectable_text_widget
\* and _tooltip_widget: the opening quote is the first single quote at or after
\* position pos, or failing that the first double quote; the closing quote is
\* the next quote of that kind that no backslash precedes.
extract_quoted_after(line, pos) ==
    LET from(quote_start) ==
            IF quote_start = 0 THEN None
            ELSE LET quote_char == line[quote_start]
                     ends == {j \in (quote_start + 1)..Len(line) :
                                 line[j] = quote_char /\ line[j - 1] # "\\"}
                 IN  IF ends = {} THEN None
                     ELSE Some(Slice(line, quote_start + 1,
                                     CHOOSE j \in ends : \A r \in ends : j <= r))
        single(q1) == from(IF q1 # 0 THEN q1 ELSE FindFrom(line, <<"\"">>, pos))
    IN  single(FindFrom(line, <<"'">>, pos))

\* extract_string_from_text_widget
extract_string_from_text_widget(line) ==
    LET text_start == Find(line, <<"T","e","x","t","(">>)
    IN  IF text_start = 0 THEN None ELSE extract_quoted_after(line, text_start)

\* extract_string_from_selectable_text_widget
extract_string_from_selectable_text_widget(line) ==
    LET selectable_start == Find(line, <<"S","e","l","e","c","t","a","b","l","e","T","e","x","t","(">>)
    IN  IF selectable_start = 0 THEN None ELSE extract_quoted_after(line, selectable_start)

\* extract_string_from_tooltip_widget
extract_string_from_tooltip_widget(line) ==
    LET tooltip_start == Find(line, <<"T","o","o","l","t","i","p","(">>)
    IN  IF tooltip_start = 0 THEN None
        ELSE LET message_start == FindFrom(line, <<"m","e","s","s","a","g","e",":">>, tooltip_start)
             IN  IF message_start = 0 THEN None
                 ELSE extract_quoted_after(line, message_start)

\* (quote)(.*?)\1 : a quoted literal, group 1 its quote, group 2 its content.
QuotedGroup == <<Open(1), One(Quotes), Close(1), Open(2), LazyDot, Close(2), Ref(1)>>

\* Widget( \s* prop: \s* (quote)(.*?)\1 \s* [),] searched in line: group 2 or None.
extract_widget_property(line, widget, prop) ==
    LET group2(m) == IF m = <<>> THEN None ELSE Some(Group(line, m, 2))
    IN  group2(ReSearch(<<Lit(widget), Ws, Lit(prop), Ws>> \o QuotedGroup
                        \o <<Ws, One({")", ","})>>, line))

\* extract_string_from_bottom_navigation_bar_item
extract_string_from_bottom_navigation_bar_item(line) ==
    LET or_tooltip(label_match) ==
            IF label_match # None THEN label_match
            ELSE extract_widget_property(line, <<"B","o","t","t","o","m","N","a","v","i","g","a","t","i","o","n","B","a","r","I","t","e","m","(">>, <<"t","o","o","l","t","i","p",":">>)
    IN  or_tooltip(extract_widget_property(line, <<"B","o","t","t","o","m","N","a","v","i","g","a","t","i","o","n","B","a","r","I","t","e","m","(">>, <<"l","a","b","e","l",":">>))

\* extract_string_from_platform_menu_item
extract_string_from_platform_menu_item(line) ==
    extract_widget_property(line, <<"P","l","a","t","f","o","r","m","M","e","n","u","I","t","e","m","(">>, <<"l","a","b","e","l",":">>)

\* extract_string_from_context_menu_button_item
extract_string_from_context_menu_button_item(line) ==
    extract_widget_property(line, <<"C","o","n","t","e","x","t","M","e","n","u","B","u","t","t","o","n","I","t","e","m","(">>, <<"l","a","b","e","l",":">>)

\* extract_string_from_button_style_button
extract_string_from_button_style_button(line) ==
    extract_widget_property(line, <<"B","u","t","t","o","n","S","t","y","l","e","B","u","t","t","o","n","(">>, <<"t","o","o","l","t","i","p",":">>)

\* extract_string_from_title_widget
extract_string_from_title_widget(line) ==
    extract_widget_property(line, <<"T","i","t","l","e","(">>, <<"t","i","t","l","e",":">>)

\* extract_string_from_widgets_app
extract_string_from_widgets_app(line) ==
    extract_widget_property(line, <<"W","i","d","g","e","t","s","A","p","p","(">>, <<"t","i","t","l","e",":">>)

\* extract_string_from_text_span
extract_string_from_text_span(line) ==
    LET or_semantics(text_match) ==
            IF text_match # None THEN text_match
            ELSE extract_widget_property(line, <<"T","e","x","t","S","p","a","n","(">>, <<"s","e","m","a","n","t","i","c","s","L","a","b","e","l",":">>)
    IN  or_semantics(extract_widget_property(line, <<"T","e","x","t","S","p","a","n","(">>, <<"t","e","x","t",":">>))

\* extract_string_from_property: name \s* : \s* (quote)(.*?)\1 \s* [,\])]
extract_string_from_property(line, property_name) ==
    LET group2(m) == IF m = <<>> THEN None ELSE Some(Group(line, m, 2))
    IN  group2(ReSearch(<<Lit(property_name), Ws, Lit(<<":">>), Ws>> \o QuotedGroup
                        \o <<Ws, One({",", "]", ")"})>>, line))

\* is_multiline_string_start
is_multiline_string_start(line) == Contains(line, <<"'","'","'">>) \/ Contains(line, <<"\"","\"","\"">>)

\* get_multiline_delimiter: None is the empty delimiter.
get_multiline_delimiter(line) ==
    IF Contains(line, <<"'","'","'">>) THEN <<"'","'","'">>
    ELSE IF Contains(line, <<"\"","\"","\"">>) THEN <<"\"","\"","\"">>
    ELSE <<>>

\* extract_multiline_string: the 13 one-line patterns for delimiter d, in
\* list order; each is searched with re.DOTALL and group 1 is the content.
multiline_patterns(d) ==
    LET call(w, close) == <<Lit(w), Ws, Lit(d), Open(1), LazyDotAll, Close(1), Lit(d), Ws, Lit(close)>>
        prop(p) == <<Lit(p), Ws, Lit(d), Open(1), LazyDotAll, Close(1), Lit(d)>>
    IN  << call(<<"T","e","x","t","(">>, <<")">>), call(<<"T","e","x","t","(">>, <<",">>),
           call(<<"S","e","l","e","c","t","a","b","l","e","T","e","x","t","(">>, <<")">>), call(<<"S","e","l","e","c","t","a","b","l","e","T","e","x","t","(">>, <<",">>),
           prop(<<"m","e","s","s","a","g","e",":">>), prop(<<"l","a","b","e","l",":">>), prop(<<"h","i","n","t",":">>), prop(<<"h","e","a","d","i","n","g",":">>),
           prop(<<"b","o","d","y",":">>), prop(<<"t","i","t","l","e",":">>), prop(<<"y","e","s","L","a","b","e","l",":">>),
           prop(<<"c","a","n","c","e","l","L","a","b","e","l",":">>), prop(<<"p","r","e","f","i","x","T","e","x","t",":">>) >>

\* The first pattern of ps, in list order, that re.search finds in s: the pair
\* <<index, match>>, or <<>>.
RECURSIVE FirstMatch(_, _, _)
FirstMatch(ps, s, j) ==
    IF j > Len(ps) THEN <<>>
    ELSE LET first(m) == IF m # <<>> THEN <<j, m>> ELSE FirstMatch(ps, s, j + 1)
         IN  first(ReSearch(ps[j], s))

\* extract_multiline_string(lines, start_line), start_line counted from 0 as in
\* the code: the pair (content, end_line).
extract_multiline_string(lines, start_line) ==
    IF start_line >= Len(lines) THEN [content |-> None, end_line |-> start_line]
    ELSE
    LET start_line_content == lines[start_line + 1]
        \* the loop over the following lines, which stops at line current_line
        \* (0-based), the first that holds the delimiter, or at the end
        until(delimiter, content_after_delimiter, current_line) ==
            LET whole == [c \in 1..(current_line - start_line - 1) |-> lines[start_line + 1 + c]]
                content_lines ==
                    <<content_after_delimiter>> \o whole \o
                    (IF current_line >= Len(lines) THEN <<>>
                     ELSE <<Slice(lines[current_line + 1], 1,
                                  Find(lines[current_line + 1], delimiter))>>)
            IN  [content |-> Some(Strip(Join(<<"\n">>, content_lines))),
                 end_line |-> current_line]
        first_closing(delimiter) ==
            LET closing == {c \in (start_line + 1)..(Len(lines) - 1) :
                                Contains(lines[c + 1], delimiter)}
            IN  IF closing = {} THEN Len(lines)
                ELSE CHOOSE c \in closing : \A r \in closing : c <= r
        after(delimiter, content_after_delimiter, end_pos) ==
            IF end_pos # 0
            THEN [content |-> Some(Strip(Slice(content_after_delimiter, 1, end_pos))),
                  end_line |-> start_line]
            ELSE until(delimiter, content_after_delimiter, first_closing(delimiter))
        rest(delimiter, content_after_delimiter) ==
            after(delimiter, content_after_delimiter, Find(content_after_delimiter, delimiter))
        one_line(delimiter, fm) ==
            IF fm # <<>>
            THEN [content |-> Some(Strip(Group(start_line_content, fm[2], 1))),
                  end_line |-> start_line]
            ELSE rest(delimiter, From(start_line_content,
                                      Find(start_line_content, delimiter) + Len(delimiter)))
        with(delimiter) ==
            IF delimiter = <<>> THEN [content |-> None, end_line |-> start_line]
            ELSE one_line(delimiter,
                          FirstMatch(multiline_patterns(delimiter), start_line_content, 1))
    IN  with(get_multiline_delimiter(start_line_content))

\* determine_string_type_from_context
determine_string_type_from_context(line) ==
    IF Contains(line, <<"T","e","x","t","(">>) THEN "TEXT_WIDGET"
    ELSE IF Contains(line, <<"S","e","l","e","c","t","a","b","l","e","T","e","x","t","(">>) THEN "SELECTABLE_TEXT_WIDGET"
    ELSE IF Contains(line, <<"T","o","o","l","t","i","p","(">>) THEN "TOOLTIP_WIDGET"
    ELSE IF Contains(line, <<"B","o","t","t","o","m","N","a","v","i","g","a","t","i","o","n","B","a","r","I","t","e","m","(">>) THEN "BOTTOM_NAVIGATION_BAR_ITEM"
    ELSE IF Contains(line, <<"P","l","a","t","f","o","r","m","M","e","n","u","I","t","e","m","(">>) THEN "PLATFORM_MENU_ITEM"
    ELSE IF Contains(line, <<"C","o","n","t","e","x","t","M","e","n","u","B","u","t","t","o","n","I","t","e","m","(">>) THEN "CONTEXT_MENU_BUTTON_ITEM"
    ELSE IF Contains(line, <<"B","u","t","t","o","n","S","t","y","l","e","B","u","t","t","o","n","(">>) THEN "BUTTON_STYLE_BUTTON"
    ELSE IF Contains(line, <<"T","i","t","l","e","(">>) THEN "TITLE_WIDGET"
    ELSE IF Contains(line, <<"W","i","d","g","e","t","s","A","p","p","(">>) THEN "WIDGETS_APP"
    ELSE IF Contains(line, <<"T","e","x","t","S","p","a","n","(">>) THEN "TEXT_SPAN"
    ELSE IF Contains(line, <<"l","a","b","e","l",":">>) THEN "LABEL"
    ELSE IF Contains(line, <<"h","i","n","t",":">>) THEN "HINT"
    ELSE IF Contains(line, <<"h","e","a","d","i","n","g",":">>) THEN "HEADING"
    ELSE IF Contains(line, <<"b","o","d","y",":">>) THEN "BODY"
    ELSE IF Contains(line, <<"t","i","t","l","e",":">>) THEN "TITLE"
    ELSE IF Contains(line, <<"y","e","s","L","a","b","e","l",":">>) THEN "YES_LABEL"
    ELSE IF Contains(line, <<"c","a","n","c","e","l","L","a","b","e","l",":">>) THEN "CANCEL_LABEL"
    ELSE IF Contains(line, <<"p","r","e","f","i","x","T","e","x","t",":">>) THEN "PREFIX_TEXT"
    ELSE "TEXT_WIDGET"

\* The printable ASCII characters in code order, from the space (code 32) to
\* the tilde (code 126), without the backquote (code 96), which no TLA+ string
\* can hold.
Ascii == <<" ","!","\"","#","$","%","&","'","(",")","*","+",",","-",".","/",
           "0","1","2","3","4","5","6","7","8","9",":",";","<","=",">","?",
           "@","A","B","C","D","E","F","G","H","I","J","K","L","M","N","O",
           "P","Q","R","S","T","U","V","W","X","Y","Z","[","\\","]","^","_",
           "a","b","c","d","e","f","g","h","i","j","k","l","m","n","o",
           "p","q","r","s","t","u","v","w","x","y","z","{","|","}","~">>

\* ord(c) for the characters of a source file.
Ord(c) ==
    IF c = "\n" THEN 10 ELSE IF c = "\t" THEN 9 ELSE IF c = "\r" THEN 13
    ELSE LET p == CHOOSE j \in 1..Len(Ascii) : Ascii[j] = c
         IN  IF p <= 64 THEN 31 + p ELSE 32 + p

HexDigits == <<"0","1","2","3","4","5","6","7","8","9","a","b","c","d","e","f">>

\* a & b for two integers of 16 bits.
And16(a, b) ==
    LET bit(k) == ((a \div (2 ^ k)) % 2) * ((b \div (2 ^ k)) % 2) * (2 ^ k)
    IN  (((bit(0) + bit(1)) + (bit(2) + bit(3))) + ((bit(4) + bit(5)) + (bit(6) + bit(7))))
        + (((bit(8) + bit(9)) + (bit(10) + bit(11))) + ((bit(12) + bit(13)) + (bit(14) + bit(15))))

\* A word of 32 bits is the pair of its halves of 16 bits, <<high, low>>.
\* x + y modulo 2^32.
Add32(x, y) ==
    <<(x[1] + y[1] + ((x[2] + y[2]) \div 65536)) % 65536, (x[2] + y[2]) % 65536>>

\* MD5: the constants floor(2^32 * abs(sin(i + 1))) of the 64 operations.
md5_K == <<
    <<55146, 42104>>, <<59591, 46934>>, <<9248, 28891>>, <<49597, 52974>>,
    <<62844, 4015>>, <<18311, 50730>>, <<43056, 17939>>, <<64838, 38145>>,
    <<27008, 39128>>, <<35652, 63407>>, <<65535, 23473>>, <<35164, 55230>>,
    <<27536, 4386>>, <<64920, 29075>>, <<42617, 17294>>, <<18868, 2081>>,
    <<63006, 9570>>, <<49216, 45888>>, <<9822, 23121>>, <<59830, 51114>>,
    <<54831, 4189>>, <<580, 5203>>, <<55457, 59009>>, <<59347, 64456>>,
    <<8673, 52710>>, <<49975, 2006>>, <<62677, 3463>>, <<17754, 5357>>,
    <<43491, 59653>>, <<64751, 41976>>, <<26479, 729>>, <<36138, 19594>>,
    <<65530, 14658>>, <<34673, 63105>>, <<28061, 24866>>, <<64997, 14348>>,
    <<42174, 59972>>, <<19422, 53161>>, <<63163, 19296>>, <<48831, 48240>>,
    <<10395, 32454>>, <<60065, 10234>>, <<54511, 12421>>, <<1160, 7429>>,
    <<55764, 53305>>, <<59099, 39397>>, <<8098, 31992>>, <<50348, 22117>>,
    <<62505, 8772>>, <<17194, 65431>>, <<43924, 9127>>, <<64659, 41017>>,
    <<25947, 22979>>, <<36620, 52370>>, <<65519, 62589>>, <<34180, 24017>>,
    <<28584, 32335>>, <<65068, 59104>>, <<41729, 17172>>, <<19976, 4513>>,
    <<63315, 32386>>, <<48442, 62005>>, <<10967, 53947>>, <<60294, 54161>> >>

\* MD5: the left rotation of each of the 64 operations.
md5_S == <<
    7, 12, 17, 22, 7, 12, 17, 22, 7, 12, 17, 22, 7, 12, 17, 22,
    5, 9, 14, 20, 5, 9, 14, 20, 5, 9, 14, 20, 5, 9, 14, 20,
    4, 11, 16, 23, 4, 11, 16, 23, 4, 11, 16, 23, 4, 11, 16, 23,
    6, 10, 15, 21, 6, 10, 15, 21, 6, 10, 15, 21, 6, 10, 15, 21 >>

\* MD5: the main loop on the block M of 16 words, from the state
\* st = <<a, b, c, d, i>> before operation i (counted from 0) to the state
\* before operation n.
RECURSIVE md5_rounds(_, _, _)
md5_rounds(st, M, n) ==
    IF st[5] = n THEN st
    ELSE
    LET i == st[5]
        and(x, y) == <<And16(x[1], y[1]), And16(x[2], y[2])>>
        not(x) == <<65535 - x[1], 65535 - x[2]>>
        plus(x, y) == <<x[1] + y[1], x[2] + y[2]>>
        or_of(x, y, xy) == <<x[1] + y[1] - xy[1], x[2] + y[2] - xy[2]>>
        xor_of(x, y, xy) == <<x[1] + y[1] - 2 * xy[1], x[2] + y[2] - 2 * xy[2]>>
        or(x, y) == or_of(x, y, and(x, y))
        xor(x, y) == xor_of(x, y, and(x, y))
        f(b, c, d) ==
            IF i < 16 THEN plus(and(b, c), and(not(b), d))
            ELSE IF i < 32 THEN plus(and(d, b), and(not(d), c))
            ELSE IF i < 48 THEN xor(xor(b, c), d)
            ELSE xor(c, or(b, not(d)))
        g == IF i < 16 THEN i
             ELSE IF i < 32 THEN (5 * i + 1) % 16
             ELSE IF i < 48 THEN (3 * i + 5) % 16
             ELSE (7 * i) % 16
        shift(y, r) ==
            IF r = 0 THEN y
            ELSE <<((y[1] * (2 ^ r)) % 65536) + (y[2] \div (2 ^ (16 - r))),
                   ((y[2] * (2 ^ r)) % 65536) + (y[1] \div (2 ^ (16 - r)))>>
        rotl(x, s) == shift(IF s >= 16 THEN <<x[2], x[1]>> ELSE x, s % 16)
        next(p) ==
            <<p[4],
              Add32(p[2], rotl(Add32(Add32(Add32(p[1], f(p[2], p[3], p[4])), md5_K[i + 1]),
                                     M[g + 1]),
                               md5_S[i + 1])),
              p[2], p[3], i + 1>>
    IN  md5_rounds(next(st), M, n)

\* MD5: the blocks of 64 bytes from block j (counted from 0) of the padded
\* message, each added to the state.
RECURSIVE md5_blocks(_, _, _)
md5_blocks(bytes, j, st) ==
    IF 64 * j >= Len(bytes) THEN st
    ELSE
    LET M == [k \in 1..16 |->
                 <<bytes[64 * j + 4 * k - 1] + 256 * bytes[64 * j + 4 * k],
                   bytes[64 * j + 4 * k - 3] + 256 * bytes[64 * j + 4 * k - 2]>>]
        sum(r) == <<Add32(st[1], r[1]), Add32(st[2], r[2]),
                    Add32(st[3], r[3]), Add32(st[4], r[4])>>
        \* the 64 operations, in the four rounds of 16
        loop(s0) == md5_rounds(md5_rounds(md5_rounds(md5_rounds(s0, M, 16), M, 32), M, 48), M, 64)
    IN  md5_blocks(bytes, j + 1, sum(loop(st \o <<0>>)))

\* hashlib.md5(string.encode()).hexdigest()[:6]: the first three bytes of the
\* MD5 digest of the text, in hexadecimal.
md5_hex6(string) ==
    LET n == Len(string)
        bytes == [j \in 1..n |-> Ord(string[j])] \o <<128>>
                 \o [j \in 1..((55 - n) % 64) |-> 0]
                 \o [j \in 1..8 |-> IF j <= 4 THEN ((8 * n) \div (256 ^ (j - 1))) % 256 ELSE 0]
        hex(b) == <<HexDigits[(b \div 16) + 1], HexDigits[(b % 16) + 1]>>
        first(a) == hex(a[2] % 256) \o hex(a[2] \div 256) \o hex(a[1] % 256)
        digest(st) == first(st[1])
    IN  digest(md5_blocks(bytes, 0, <<<<26437, 8961>>, <<61389, 43913>>,
                                     <<39098, 56574>>, <<4146, 21622>>>>))

\* generate_key_from_string: the last word of ws, scanning backwards, that is
\* longer than 2 characters and no stop word; <<>> when there is none.
last_meaningful_word(ws) ==
    LET ok == {j \in 1..Len(ws) : ws[j] \notin common_words /\ Len(ws[j]) > 2}
    IN  IF ok = {} THEN <<>> ELSE <<ws[CHOOSE j \in ok : \A r \in ok : j >= r]>>

\* A variant of generate_key_from_string that numbers the keys in the order of
\* the calls.
generate_key_numbered(string) == <<"k","e","y","_">> \o IntStr(Cardinality(key_calls))

\* generate_key_from_string: the words of the string, cleaned of every
\* character that is no letter, digit or whitespace and put in lower case.
words_of(string) ==
    Split(ToLower(FilterCh(string, {c \in {string[j] : j \in 1..Len(string)} :
                                       c \notin Alpha \cup Digit \cup Space})))

\* A variant of derived_key that joins all the words of a string of any
\* length.
derived_key_all_words(string) == Join(<<"_">>, words_of(string))

\* generate_key_from_string: the key before the three checks at the end, from
\* all the words of a short string, from the key words and the hash of a long
\* one.
derived_key(string) ==
    LET key_words(words) ==
            SubSeq(words, 1, 3) \o
            (IF Len(words) > 4 THEN last_meaningful_word(SubSeq(words, 4, Len(words)))
             ELSE <<>>)
        joined(words) ==
            IF Len(words) > 8
            THEN Join(<<"_">>, key_words(words)) \o <<"_">> \o md5_hex6(string)
            ELSE Join(<<"_">>, words)
    IN  joined(words_of(string))

\* A variant of generate_key_from_string without the three checks at the end.
generate_key_unchecked(string) == derived_key(string)

\* generate_key_from_string
generate_key_from_string(string) ==
    LET or_unknown(key) ==
            IF key = <<>> THEN <<"u","n","k","n","o","w","n","_","s","t","r","i","n","g">> ELSE key
        no_keyword(key) ==
            or_unknown(IF key \in dart_keywords THEN key \o <<"_","t","e","x","t">> ELSE key)
        no_digit(key) ==
            no_keyword(IF key # <<>> /\ key[1] \in Digit THEN <<"k","e","y","_">> \o key ELSE key)
    IN  no_digit(derived_key(string))

\* convert_dart_interpolation_to_arb: the three re.sub calls in order.
convert_dart_interpolation_to_arb(string) ==
    LET \* dollar, brace, quote, group 1 = one or more non-quotes, quote, brace -> {group 1}
        r1 == ReSub(<<Lit(<<"$","{">>), One(Quotes), Open(1), NotPlus(Quotes), Close(1),
                      One(Quotes), Lit(<<"}">>)>>,
                    <<TText(<<"{">>), TGroup(1), TText(<<"}">>)>>, string)
        \* (?<!\{)\{(?!\w)  ->  {{
        r2 == ReSub(<<NotBehind({"{"}), Lit(<<"{">>), NotAhead(WordCh)>>,
                    <<TText(<<"{","{">>)>>, r1)
        \* \}(?!\})  ->  }}
    IN  ReSub(<<Lit(<<"}">>), NotAhead({"}"})>>, <<TText(<<"}","}">>)>>, r2)

\* replace_strings_in_files: the patterns and the replacement of a call-form
\* anchor, Widget( \s* [prop: \s*] quote (text) quote \s* close, replaced by
\* Widget([prop: ]replacement).
call_form(widget, prop, close, string, replacement) ==
    [p |-> <<Lit(widget), Ws>> \o (IF prop = <<>> THEN <<>> ELSE <<Lit(prop), Ws>>) \o
           <<One(Quotes), Open(1), Lit(string), Close(1), One(Quotes), Ws, Lit(close)>>,
     t |-> <<TText(widget \o (IF prop = <<>> THEN <<>> ELSE prop \o <<" ">>)
                   \o replacement \o <<")">>)>>]

\* The patterns and the replacement of a field-form anchor,
\* prop: \s* quote (text) quote \s* close, replaced by prop: replacement, (with
\* the comma).
field_form(prop, close, string, replacement) ==
    [p |-> <<Lit(prop), Ws, One(Quotes), Open(1), Lit(string), Close(1), One(Quotes),
             Ws, Lit(close)>>,
     t |-> <<TText(prop \o <<" ">> \o replacement \o <<",">>)>>]

\* The pattern list of the branch of replace_strings_in_files for string_type,
\* each with the replacement the branch substitutes for it.
single_line_patterns(string_type, string, replacement) ==
    LET calls(w, pr) == << call_form(w, pr, <<")">>, string, replacement),
                           call_form(w, pr, <<",">>, string, replacement) >>
        fields(pr)   == << field_form(pr, <<",">>, string, replacement),
                           field_form(pr, <<")">>, string, replacement) >>
        \* the template is chosen by a substring test on the pattern text, which
        \* holds the property of the pattern and the escaped literal
        either(w, pr1, pr2) ==
            LET alt == calls(w, pr2)
                t1  == call_form(w, pr1, <<")">>, string, replacement).t
            IN  calls(w, pr1) \o
                [j \in 1..2 |-> IF Contains(string, pr1)
                                THEN [p |-> alt[j].p, t |-> t1] ELSE alt[j]]
    IN  CASE string_type = "TEXT_WIDGET" -> calls(<<"T","e","x","t","(">>, <<>>)
          [] string_type = "SELECTABLE_TEXT_WIDGET" -> calls(<<"S","e","l","e","c","t","a","b","l","e","T","e","x","t","(">>, <<>>)
          [] string_type = "TOOLTIP_WIDGET" -> calls(<<"T","o","o","l","t","i","p","(">>, <<"m","e","s","s","a","g","e",":">>)
          [] string_type = "BOTTOM_NAVIGATION_BAR_ITEM" ->
                either(<<"B","o","t","t","o","m","N","a","v","i","g","a","t","i","o","n","B","a","r","I","t","e","m","(">>, <<"l","a","b","e","l",":">>, <<"t","o","o","l","t","i","p",":">>)
          [] string_type = "PLATFORM_MENU_ITEM" -> calls(<<"P","l","a","t","f","o","r","m","M","e","n","u","I","t","e","m","(">>, <<"l","a","b","e","l",":">>)
          [] string_type = "CONTEXT_MENU_BUTTON_ITEM" ->
                calls(<<"C","o","n","t","e","x","t","M","e","n","u","B","u","t","t","o","n","I","t","e","m","(">>, <<"l","a","b","e","l",":">>)
          [] string_type = "BUTTON_STYLE_BUTTON" -> calls(<<"B","u","t","t","o","n","S","t","y","l","e","B","u","t","t","o","n","(">>, <<"t","o","o","l","t","i","p",":">>)
          [] string_type = "TITLE_WIDGET" -> calls(<<"T","i","t","l","e","(">>, <<"t","i","t","l","e",":">>)
          [] string_type = "WIDGETS_APP" -> calls(<<"W","i","d","g","e","t","s","A","p","p","(">>, <<"t","i","t","l","e",":">>)
          [] string_type = "TEXT_SPAN" -> either(<<"T","e","x","t","S","p","a","n","(">>, <<"t","e","x","t",":">>, <<"s","e","m","a","n","t","i","c","s","L","a","b","e","l",":">>)
          [] string_type = "LABEL" -> fields(<<"l","a","b","e","l",":">>)
          [] string_type = "HINT" -> fields(<<"h","i","n","t",":">>)
          [] string_type = "HEADING" -> fields(<<"h","e","a","d","i","n","g",":">>)
          [] string_type = "BODY" -> fields(<<"b","o","d","y",":">>)
          [] string_type = "TITLE" -> fields(<<"t","i","t","l","e",":">>)
          [] string_type = "YES_LABEL" -> fields(<<"y","e","s","L","a","b","e","l",":">>)
          [] string_type = "CANCEL_LABEL" -> fields(<<"c","a","n","c","e","l","L","a","b","e","l",":">>)
          [] string_type = "PREFIX_TEXT" -> fields(<<"p","r","e","f","i","x","T","e","x","t",":">>)
          [] string_type = "BUTTON_LABEL" -> fields(<<"l","a","b","e","l",":">>)
          [] OTHER -> <<>>

\* The loop over the patterns of one branch: the first pattern that is found
\* in line and whose substitution changes line wins.
RECURSIVE apply_patterns(_, _, _)
apply_patterns(ps, line, j) ==
    IF j > Len(ps) THEN [replacement_made |-> FALSE, line |-> line]
    ELSE IF ReSearch(ps[j].p, line) # <<>>
         THEN LET changed(new_line) ==
                      IF new_line # line THEN [replacement_made |-> TRUE, line |-> new_line]
                      ELSE apply_patterns(ps, line, j + 1)
              IN  changed(ReSub(ps[j].p, ps[j].t, line))
         ELSE apply_patterns(ps, line, j + 1)

\* The single-line branch of replace_strings_in_files for one occurrence.
replace_single_line(line, string_loc, replacement) ==
    apply_patterns(single_line_patterns(string_loc.string_type, string_loc.string,
                                        replacement), line, 1)

\* replace_single_line_multiline_string: the 10 patterns for delimiter d.
single_line_multiline_patterns(d) ==
    LET call(w, close) == <<Lit(w), Ws, Lit(d), Open(1), LazyDotAll, Close(1), Lit(d), Ws, Lit(close)>>
        prop(p) == <<Lit(p), Ws, Lit(d), Open(1), LazyDotAll, Close(1), Lit(d)>>
    IN  << call(<<"T","e","x","t","(">>, <<")">>), call(<<"T","e","x","t","(">>, <<",">>),
           prop(<<"l","a","b","e","l",":">>), prop(<<"h","i","n","t",":">>), prop(<<"h","e","a","d","i","n","g",":">>),
           prop(<<"b","o","d","y",":">>), prop(<<"t","i","t","l","e",":">>), prop(<<"y","e","s","L","a","b","e","l",":">>),
           prop(<<"c","a","n","c","e","l","L","a","b","e","l",":">>), prop(<<"p","r","e","f","i","x","T","e","x","t",":">>) >>

\* replace_single_line_multiline_string: [ok, lines].
replace_single_line_multiline_string(lines, string_loc, replacement, delimiter) ==
    LET start_line == string_loc.line_number - 1
        start_line_content == lines[start_line + 1]
        \* the replacement of the pattern at index n, with the match of
        \* (\w+): \s* delimiter in the line
        tmpl(n, property_match) ==
            IF n <= 2 THEN <<TText(<<"T","e","x","t","(">> \o replacement \o <<")">>)>>
            ELSE IF property_match # <<>>
            THEN <<TText(Group(start_line_content, property_match, 1)
                         \o <<":"," ">> \o replacement)>>
            ELSE <<TText(replacement)>>
        matched(ps, fm) ==
            IF fm = <<>> THEN [ok |-> FALSE, lines |-> lines]
            ELSE [ok |-> TRUE,
                  lines |-> [lines EXCEPT ![start_line + 1] =
                     ReSub(ps[fm[1]],
                           tmpl(fm[1], ReSearch(<<Open(1), Plus(WordCh), Close(1), Lit(<<":">>),
                                                  Ws, Lit(delimiter)>>, start_line_content)),
                           start_line_content)]]
        with(ps) == matched(ps, FirstMatch(ps, start_line_content, 1))
    IN  with(single_line_multiline_patterns(delimiter))

\* A variant of replace_spanning_multiline_string that removes the lines after
\* the start line instead of emptying them.
replace_spanning_removing_lines(lines, string_loc, replacement, delimiter) ==
    IF string_loc.end_line_number > Len(lines) THEN [ok |-> FALSE, lines |-> lines]
    ELSE [ok |-> TRUE,
          lines |-> SubSeq(lines, 1, string_loc.line_number - 1)
                    \o <<Slice(lines[string_loc.line_number], 1,
                                Find(lines[string_loc.line_number], delimiter))
                          \o replacement \o <<")">>>>
                    \o SubSeq(lines, string_loc.end_line_number + 1, Len(lines))]

\* replace_spanning_multiline_string: [ok, lines].
replace_spanning_multiline_string(lines, string_loc, replacement, delimiter) ==
    LET start_line == string_loc.line_number - 1
        end_line == string_loc.end_line_number - 1
    IN  IF start_line >= Len(lines) \/ end_line >= Len(lines)
        THEN [ok |-> FALSE, lines |-> lines]
        ELSE
        LET start_line_content == lines[start_line + 1]
            start_pos == Find(start_line_content, delimiter)
            widget_type == \/ Contains(start_line_content, <<"T","e","x","t","(">>)
                           \/ Contains(start_line_content, <<"S","e","l","e","c","t","a","b","l","e","T","e","x","t","(">>)
                           \/ Contains(start_line_content, <<"T","o","o","l","t","i","p","(">>)
            property_name == \/ Contains(start_line_content, <<"l","a","b","e","l",":">>)
                             \/ Contains(start_line_content, <<"h","i","n","t",":">>)
                             \/ Contains(start_line_content, <<"h","e","a","d","i","n","g",":">>)
                             \/ Contains(start_line_content, <<"b","o","d","y",":">>)
                             \/ Contains(start_line_content, <<"t","i","t","l","e",":">>)
                             \/ Contains(start_line_content, <<"y","e","s","L","a","b","e","l",":">>)
                             \/ Contains(start_line_content, <<"c","a","n","c","e","l","L","a","b","e","l",":">>)
                             \/ Contains(start_line_content, <<"p","r","e","f","i","x","T","e","x","t",":">>)
            before_delimiter == Slice(start_line_content, 1, start_pos)
            after_delimiter == From(start_line_content, start_pos + Len(delimiter))
            end_pos == Find(after_delimiter, delimiter)
            after_end == From(after_delimiter, end_pos + Len(delimiter))
            new_line == IF widget_type THEN before_delimiter \o replacement \o <<")">>
                        ELSE IF property_name THEN before_delimiter \o replacement \o <<",">>
                        ELSE before_delimiter \o replacement
        IN  IF start_pos = 0 THEN [ok |-> FALSE, lines |-> lines]
            ELSE IF end_pos # 0
            THEN [ok |-> TRUE,
                  lines |-> [lines EXCEPT ![start_line + 1] =
                                before_delimiter \o replacement \o after_end]]
            ELSE [ok |-> TRUE,
                  lines |-> [j \in 1..Len(lines) |->
                                IF j = start_line + 1 THEN new_line
                                ELSE IF j - 1 \in (start_line + 1)..end_line THEN <<>>
                                ELSE lines[j]]]

\* replace_multiline_string: [ok, lines].  end_line_number 0 stands for None.
replace_multiline_string(lines, string_loc, replacement) ==
    LET start_line == string_loc.line_number - 1
        end_line == IF string_loc.end_line_number # 0
                    THEN string_loc.end_line_number - 1 ELSE start_line
    IN  IF start_line >= Len(lines) THEN [ok |-> FALSE, lines |-> lines]
        ELSE LET delimiter == get_multiline_delimiter(lines[start_line + 1])
             IN  IF delimiter = <<>> THEN [ok |-> FALSE, lines |-> lines]
                 ELSE IF end_line > start_line
                 THEN replace_spanning_multiline_string(lines, string_loc, replacement, delimiter)
                 ELSE replace_single_line_multiline_string(lines, string_loc, replacement, delimiter)

\* f.readlines(): the lines of a file's text, each with its newline.
readlines(text) ==
    LET nth(last, n) == CHOOSE j \in last : Cardinality({r \in last : r < j}) = n - 1
        cut(last) ==
            <<>> \o [n \in 1..Cardinality(last) |->
                        SubSeq(text, IF n = 1 THEN 1 ELSE nth(last, n - 1) + 1, nth(last, n))]
    IN  cut({j \in 1..Len(text) : text[j] = "\n" \/ j = Len(text)})

\* f.writelines(lines)
writelines(lines) == Concat(lines)

\* A variant of StringLocation that makes the key from the text and the line.
StringLocationKeyedByLine(string, file_path, line_number, string_type, context, key_name, is_multiline, end_line_number) ==
    [string |-> string, file_path |-> file_path, line_number |-> line_number,
     string_type |-> string_type, context |-> context,
     key_name |-> key_name \o <<"_">> \o IntStr(line_number),
     is_multiline |-> is_multiline, end_line_number |-> end_line_number]

\* StringLocation(...).  end_line_number 0 stands for None.
StringLocation(string, file_path, line_number, string_type, context, key_name, is_multiline, end_line_number) ==
    [string |-> string, file_path |-> file_path, line_number |-> line_number,
     string_type |-> string_type, context |-> context, key_name |-> key_name,
     is_multiline |-> is_multiline, end_line_number |-> end_line_number]

\* UnprocessedStringLocation(...).  end_line_number 0 stands for None.
UnprocessedStringLocation(string, file_path, line_number, context, reason, is_multiline, end_line_number) ==
    [string |-> string, file_path |-> file_path, line_number |-> line_number,
     context |-> context, reason |-> reason,
     is_multiline |-> is_multiline, end_line_number |-> end_line_number]

\* The extractor that find_user_facing_strings calls for a pattern of
\* user_facing_patterns, by its string type.
extract_for_pattern(line, pat) ==
    CASE pat.string_type = "TEXT_WIDGET" -> extract_string_from_text_widget(line)
      [] pat.string_type = "SELECTABLE_TEXT_WIDGET" ->
            extract_string_from_selectable_text_widget(line)
      [] pat.string_type = "TOOLTIP_WIDGET" -> extract_string_from_tooltip_widget(line)
      [] pat.string_type = "BOTTOM_NAVIGATION_BAR_ITEM" ->
            extract_string_from_bottom_navigation_bar_item(line)
      [] pat.string_type = "PLATFORM_MENU_ITEM" -> extract_string_from_platform_menu_item(line)
      [] pat.string_type = "CONTEXT_MENU_BUTTON_ITEM" ->
            extract_string_from_context_menu_button_item(line)
      [] pat.string_type = "BUTTON_STYLE_BUTTON" -> extract_string_from_button_style_button(line)
      [] pat.string_type = "TITLE_WIDGET" -> extract_string_from_title_widget(line)
      [] pat.string_type = "WIDGETS_APP" -> extract_string_from_widgets_app(line)
      [] pat.string_type = "TEXT_SPAN" -> extract_string_from_text_span(line)
      [] OTHER -> \* pattern.rstrip(':')
            extract_string_from_property(line, SubSeq(pat.pattern, 1, Len(pat.pattern) - 1))

\* A variant of find_multiline that leaves the cursor on the line where the
\* literal starts.
find_multiline_staying(file_path, lines, i) ==
    LET line == lines[i + 1]
        line_num == i + 1
        classified(extracted_string, end_line, context, exclusion_reason) ==
            [results |->
                IF Truthy(extracted_string) /\ exclusion_reason = "None"
                THEN <<StringLocation(extracted_string[1], file_path, line_num,
                                      determine_string_type_from_context(line), context,
                                      generate_key_from_string(extracted_string[1]),
                                      TRUE, end_line + 1)>>
                ELSE <<>>,
             unprocessed |->
                IF Truthy(extracted_string) /\ exclusion_reason # "None"
                THEN <<UnprocessedStringLocation(extracted_string[1], file_path, line_num,
                                                 context, exclusion_reason, TRUE, end_line + 1)>>
                ELSE <<>>,
             i |-> i]
        extracted(r) ==
            classified(r.content, r.end_line,
                       <<"L","i","n","e","s"," ">> \o IntStr(line_num) \o <<"-">>
                            \o IntStr(r.end_line + 1),
                       IF Truthy(r.content) THEN is_technical_string(r.content[1]) ELSE "None")
    IN  extracted(extract_multiline_string(lines, i))

\* One iteration of the scan loop that starts a multi-line literal at line i
\* (counted from 0): the occurrences it appends and the next cursor.
find_multiline(file_path, lines, i) ==
    LET line == lines[i + 1]
        line_num == i + 1
        classified(extracted_string, end_line, context, exclusion_reason) ==
            [results |->
                IF Truthy(extracted_string) /\ exclusion_reason = "None"
                THEN <<StringLocation(extracted_string[1], file_path, line_num,
                                      determine_string_type_from_context(line), context,
                                      generate_key_from_string(extracted_string[1]),
                                      TRUE, end_line + 1)>>
                ELSE <<>>,
             unprocessed |->
                IF Truthy(extracted_string) /\ exclusion_reason # "None"
                THEN <<UnprocessedStringLocation(extracted_string[1], file_path, line_num,
                                                 context, exclusion_reason, TRUE, end_line + 1)>>
                ELSE <<>>,
             i |-> end_line + 1]
        extracted(r) ==
            classified(r.content, r.end_line,
                       <<"L","i","n","e","s"," ">> \o IntStr(line_num) \o <<"-">>
                            \o IntStr(r.end_line + 1),
                       IF Truthy(r.content) THEN is_technical_string(r.content[1]) ELSE "None")
    IN  extracted(extract_multiline_string(lines, i))

\* The literals of a concatenation line that are reported: those that are not
\* blank.
RECURSIVE concat_unprocessed(_, _, _, _)
concat_unprocessed(ms, file_path, line_num, line) ==
    IF ms = <<>> THEN <<>>
    ELSE (IF Strip(Head(ms)) # <<>>
          THEN <<UnprocessedStringLocation(Head(ms), file_path, line_num, Strip(line),
                                           "STRING_CONCATENATION", FALSE, 0)>>
          ELSE <<>>)
         \o concat_unprocessed(Tail(ms), file_path, line_num, line)

\* The loop over user_facing_patterns on one line, from pattern j: the accepted
\* and the excluded occurrences it appends, in order.  Every pattern that the
\* line contains appends at most one occurrence.
find_patterns(file_path, line, line_num, j) ==
    LET classified(pat, extracted_string, exclusion_reason) ==
            IF ~Truthy(extracted_string) THEN [results |-> <<>>, unprocessed |-> <<>>]
            ELSE IF exclusion_reason # "None"
            THEN [results |-> <<>>,
                  unprocessed |->
                    <<UnprocessedStringLocation(extracted_string[1], file_path, line_num,
                                                Strip(line), exclusion_reason, FALSE, 0)>>]
            ELSE [results |->
                    <<StringLocation(extracted_string[1], file_path, line_num, pat.string_type,
                                     Strip(line), generate_key_from_string(extracted_string[1]),
                                     FALSE, 0)>>,
                  unprocessed |-> <<>>]
        extracted(pat, extracted_string) ==
            classified(pat, extracted_string,
                       IF Truthy(extracted_string) THEN is_technical_string(extracted_string[1])
                       ELSE "None")
        appended(pat) ==
            extracted(pat, IF Contains(line, pat.pattern) THEN extract_for_pattern(line, pat)
                           ELSE None)
        both(accepted, excluded) ==
            [results |-> <<>> \o [n \in 1..Len(accepted) |-> accepted[n].results[1]],
             unprocessed |-> <<>> \o [n \in 1..Len(excluded) |-> excluded[n].unprocessed[1]]]
        all(each) == both(SelectSeq(each, LAMBDA r : r.results # <<>>),
                          SelectSeq(each, LAMBDA r : r.unprocessed # <<>>))
    IN  all(<<>> \o [n \in 1..(Len(user_facing_patterns) + 1 - j) |->
                        appended(user_facing_patterns[j + n - 1])])

\* One iteration of the while loop of find_user_facing_strings at cursor i
\* (counted from 0): what it appends to results and to unprocessed_results, and
\* the cursor it leaves.
find_step(file_path, lines, i) ==
    LET line == lines[i + 1]
        line_num == i + 1
    IN  IF is_comment_line(line)
        THEN [results |-> <<>>, unprocessed |-> <<>>, i |-> i + 1]
        ELSE IF is_multiline_string_start(line)
        THEN find_multiline(file_path, lines, i)
        ELSE IF is_string_concatenation(line)
        THEN [results |-> <<>>,
              unprocessed |->
                concat_unprocessed(
                    ReFindAll(<<One(Quotes), Open(1), NotStar(Quotes), Close(1), One(Quotes)>>,
                              line),
                    file_path, line_num, line),
              i |-> i + 1]
        ELSE LET next(r) == [results |-> r.results, unprocessed |-> r.unprocessed, i |-> i + 1]
             IN  next(find_patterns(file_path, line, line_num, 1))

\* The first character of the key of a metadata entry of the ARB file.
AtSign == <<"@">>

\* A dict is a list of [key, value] pairs in insertion order.
HasKey(d, k) == \E j \in 1..Len(d) : d[j].key = k

\* d[k] = v: the value of an existing key is replaced in place, a new key is
\* appended.
Put(d, k, v) ==
    IF HasKey(d, k)
    THEN [j \in 1..Len(d) |-> IF d[j].key = k THEN [key |-> k, value |-> v] ELSE d[j]]
    ELSE Append(d, [key |-> k, value |-> v])

\* d[k] for a key of d.
Get(d, k) == d[CHOOSE j \in 1..Len(d) : d[j].key = k].value

\* A value of the ARB file is a str, [str |-> TRUE, s |-> text], or the
\* metadata object of an @key, [str |-> FALSE, s |-> its description].
ArbStr(s)  == [str |-> TRUE, s |-> s]
ArbMeta(s) == [str |-> FALSE, s |-> s]

\* read_existing_translations: the set of the texts that the ARB data maps to
\* a key (the keys of the dict it returns).
existing_texts(arb_data) ==
    {arb_data[j].value.s : j \in {n \in 1..Len(arb_data) :
        /\ ~StartsAt(arb_data[n].key, AtSign, 1)
        /\ arb_data[n].value.str}}

\* A variant of unique_key that takes the key as it is, taken or not.
unique_key_unchecked(arb_data, original_key, counter) == original_key

\* add_strings_to_arb: the first free key among key, key_1, key_2, ...
RECURSIVE unique_key(_, _, _)
unique_key(arb_data, original_key, counter) ==
    LET key == IF counter = 0 THEN original_key
               ELSE original_key \o <<"_">> \o IntStr(counter)
    IN  IF HasKey(arb_data, key) THEN unique_key(arb_data, original_key, counter + 1)
        ELSE key

\* add_strings_to_arb: the body of the loop for one new string.
add_string(arb_data, string) ==
    LET arb_string == convert_dart_interpolation_to_arb(string)
        put(key) ==
            Put(Put(arb_data, key, ArbStr(arb_string)),
                AtSign \o key, ArbMeta(<<"A","u","t","o","-","g","e","n","e","r","a","t","e","d"," ","f","o","r",":"," ">> \o string))
    IN  put(unique_key(arb_data, generate_key_from_string(string), 0))

\* fix_existing_arb_strings: the data after the loop over the items.
fix_arb_data(arb_data) ==
    [j \in 1..Len(arb_data) |->
        LET key == arb_data[j].key
            value == arb_data[j].value
        IN  IF /\ ~StartsAt(key, AtSign, 1)
               /\ value.str
               /\ Contains(value.s, <<"$","{">>)
               /\ Contains(value.s, <<"}">>)
            THEN [key |-> key, value |-> ArbStr(convert_dart_interpolation_to_arb(value.s))]
            ELSE arb_data[j]]

\* separate_strings: the loop over all_strings from position j, with the set of
\* the texts seen so far.
RECURSIVE separate_from(_, _, _, _)
separate_from(all, j, seen_strings, existing) ==
    IF j > Len(all) THEN [new_strings |-> <<>>, existing_strings |-> <<>>]
    ELSE LET string == all[j].string
             rest == separate_from(all, j + 1, seen_strings \cup {string}, existing)
         IN  IF string \in seen_strings THEN rest
             ELSE IF string \in existing
             THEN [new_strings |-> rest.new_strings,
                   existing_strings |-> <<string>> \o rest.existing_strings]
             ELSE [new_strings |-> <<string>> \o rest.new_strings,
                   existing_strings |-> rest.existing_strings]

\* The members of locs whose field line_number is n, in their order.
RECURSIVE at_line(_, _)
at_line(locs, n) ==
    IF locs = <<>> THEN <<>>
    ELSE (IF Head(locs).line_number = n THEN <<Head(locs)>> ELSE <<>>)
         \o at_line(Tail(locs), n)

\* locs.sort(key=lambda x: x.line_number, reverse=True): descending and stable.
RECURSIVE sort_desc_from(_, _)
sort_desc_from(locs, n) ==
    IF n < 1 THEN <<>> ELSE at_line(locs, n) \o sort_desc_from(locs, n - 1)

\* A variant of sort_by_line_desc that leaves the locations in the order of
\* their discovery.
sort_by_discovery(locs) == locs

sort_by_line_desc(locs) ==
    LET nums == {locs[j].line_number : j \in 1..Len(locs)}
    IN  IF nums = {} THEN <<>>
        ELSE sort_desc_from(locs, CHOOSE n \in nums : \A r \in nums : n >= r)

\* The grouping of a list of locations by file_path into a dict, the files in
\* the order of their first location.
RECURSIVE group_by_file(_, _)
group_by_file(locs, d) ==
    IF locs = <<>> THEN d
    ELSE LET fp == Head(locs).file_path
         IN  group_by_file(Tail(locs),
                 Put(d, fp, (IF HasKey(d, fp) THEN Get(d, fp) ELSE <<>>) \o <<Head(locs)>>))

\* A variant of replace_one that counts every single-line occurrence as
\* replaced, found in its line or not.
replace_one_counting(lines, string_loc) ==
    LET replacement == <<"c","o","n","t","e","x","t",".","t","r","a","n","s","l","a","t","i","o","n","s",".">> \o string_loc.key_name
        multi(r) == [lines |-> r.lines, made |-> r.ok]
        single(r) == [lines |-> IF r.replacement_made
                                THEN [lines EXCEPT ![string_loc.line_number] = r.line]
                                ELSE lines,
                      made |-> TRUE]
    IN  IF string_loc.line_number > Len(lines) THEN [lines |-> lines, made |-> FALSE]
        ELSE IF string_loc.is_multiline
        THEN multi(replace_multiline_string(lines, string_loc, replacement))
        ELSE single(replace_single_line(lines[string_loc.line_number], string_loc,
                                        replacement))

\* replace_strings_in_files: the body of the loop for one occurrence on the
\* lines of its file: [lines, made].
replace_one(lines, string_loc) ==
    LET replacement == <<"c","o","n","t","e","x","t",".","t","r","a","n","s","l","a","t","i","o","n","s",".">> \o string_loc.key_name
        multi(r) == [lines |-> r.lines, made |-> r.ok]
        single(r) == [lines |-> IF r.replacement_made
                                THEN [lines EXCEPT ![string_loc.line_number] = r.line]
                                ELSE lines,
                      made |-> r.replacement_made]
    IN  IF string_loc.line_number > Len(lines) THEN [lines |-> lines, made |-> FALSE]
        ELSE IF string_loc.is_multiline
        THEN multi(replace_multiline_string(lines, string_loc, replacement))
        ELSE single(replace_single_line(lines[string_loc.line_number], string_loc,
                                        replacement))

\* add_todo_comments_for_unprocessed_strings: the locations that get a TODO
\* comment.
todo_candidates(unprocessed) ==
    LET keep(u) == /\ u.reason \in {"STRING_CONCATENATION", "TOO_SHORT"}
                   /\ ~(u.reason = "TOO_SHORT" /\ IsDigitStr(u.string))
    IN  SelectSeq(unprocessed, keep)

\* The loop over the sorted locations of one file: the lines with the TODO
\* comments inserted.
RECURSIVE insert_todos(_, _)
insert_todos(lines, strings) ==
    IF strings = <<>> THEN lines
    ELSE
    LET string_loc == Head(strings)
        line_index == string_loc.line_number - 1
        todo_already_exists ==
            /\ line_index > 0
            /\ StartsAt(Strip(lines[line_index]), <<"/","/"," ","T","O","D","O","(","t","r","a","n","s","l","a","t","i","o","n",")",":">>, 1)
        todo_comment == <<"/","/"," ","T","O","D","O","(","t","r","a","n","s","l","a","t","i","o","n",")",":"," ","T","r","a","n","s","l","a","t","e"," ","t","h","i","s"," ","s","t","r","i","n","g",":"," ","'">>
                        \o string_loc.string \o <<"'","\n">>
    IN  IF line_index < Len(lines) /\ ~todo_already_exists
        THEN insert_todos(SubSeq(lines, 1, line_index) \o <<todo_comment>>
                          \o SubSeq(lines, line_index + 1, Len(lines)), Tail(strings))
        ELSE insert_todos(lines, Tail(strings))

\* ------------------------------------------------------------ the inputs
\* The paths of the Dart files under lib/.
FileA == <<"l","i","b","/","a",".","d","a","r","t">>
FileB == <<"l","i","b","/","b",".","d","a","r","t">>
FileG == <<"l","i","b","/","c",".","g",".","d","a","r","t">>
Paths == {FileA, FileB, FileG}

\* The orders in which Path.rglob may list the files.
FileOrders == { <<FileA, FileG, FileB>>, <<FileB, FileA, FileG>> }

\* The source lines that the files of the tree are made of.
LinePool == {
    <<"T","e","x","t","(","'","H","e","l","l","o","!","'",")","\n">>,
    <<"T","e","x","t","(","'","H","e","l","l","o","?","'",","," ","s",")","\n">>,
    <<"'","H","i"," ","'"," ","+"," ","n","\n">>,
    <<"T","e","x","t","(","'","'","'","A","b","\n">>,
    <<"c","d","'","'","'",")","\n">>,
    <<"e","r","r","o","r",":"," ","'","H","i"," ","$","{","u","}","'",",","\n">>,
    <<"i","n","t"," ","x",";","\n">> }

\* The texts of lib/a.dart: 1 to MaxLines lines of LinePool.
TextsA == UNION { {Concat(ls) : ls \in [1..n -> LinePool]} : n \in 1..MaxLines }

\* The texts of lib/b.dart.
TextsB == { <<"l","a","b","e","l",":"," ","'","H","e","l","l","o","!","'",")","\n">>, <<"i","n","t"," ","x",";","\n">> }

\* The text of the generated file lib/c.g.dart.
TextG == <<"T","e","x","t","(","'","H","e","l","l","o","!","'",")","\n">>

\* The ARB file before the first run: absent, or holding one hand-written
\* entry.
ArbPool == { [exists |-> FALSE, data |-> <<>>],
             [exists |-> TRUE,
              data |-> <<[key |-> <<"g","r","e","e","t">>, value |-> ArbStr(<<"H","e","l","l","o","!">>)]>>] }

\* ------------------------------------------------------------------- state
VARIABLES
    files,          \* the text of each Dart file
    arb,            \* the base ARB file: [exists, data]
    pc,             \* the position of run()
    runs,           \* the number of runs started
    dart_files,     \* scan_codebase: the list of files
    fidx,           \* scan_codebase: the position in dart_files (from 1)
    total_files,
    all_strings,
    all_unprocessed_strings,
    lines,          \* the list lines of the function that has a file open
    i,              \* find_user_facing_strings: the cursor (from 0)
    results,
    unprocessed_results,
    new_strings,
    existing_strings,
    arb_data,       \* add_strings_to_arb: the dict in memory
    aidx,           \* add_strings_to_arb: the position in new_strings (from 1)
    l10n,           \* the outcome of flutter gen-l10n in this run
    files_to_update,\* the dict of replace_strings_in_files / of the TODO step
    ridx,           \* the position in files_to_update (from 1)
    string_locations,
    sidx,           \* the position in string_locations (from 1)
    file_modified,
    total_replacements,
    report,         \* the numbers of generate_report
    files_before,   \* history: the files when the current run started
    arb_before,     \* history: the ARB file when the current run started
    prev,           \* history: how the previous run ended ("none" before the first)
    written,        \* history: the pairs (file, step) written back in the current run
    replaced        \* history: the files in which a replacement succeeded in this run

vars == <<files, arb, pc, runs, dart_files, fidx, total_files, all_strings,
          all_unprocessed_strings, lines, i, results, unprocessed_results,
          new_strings, existing_strings, arb_data, aidx, l10n, files_to_update,
          ridx, string_locations, sidx, file_modified, total_replacements, report,
          files_before, arb_before, prev, written, replaced, key_calls>>

diskVars    == <<files, arb>>
scanVars    == <<dart_files, fidx, total_files, all_strings, all_unprocessed_strings>>
findVars    == <<lines, i, results, unprocessed_results>>
sepVars     == <<new_strings, existing_strings>>
addVars     == <<arb_data, aidx>>
replaceVars == <<files_to_update, ridx, string_locations, sidx, file_modified,
                 total_replacements>>
histVars    == <<files_before, arb_before, prev>>
writeVars   == <<written, replaced>>

NoReport == [new |-> 0, existing |-> 0, replaced |-> 0, unprocessed |-> 0]

\* The state of a run that has not started: what __init__ and the locals of
\* run() hold before the first step.
Fresh ==
    /\ dart_files = <<>> /\ fidx = 1 /\ total_files = 0
    /\ all_strings = <<>> /\ all_unprocessed_strings = <<>>
    /\ lines = <<>> /\ i = 0 /\ results = <<>> /\ unprocessed_results = <<>>
    /\ new_strings = <<>> /\ existing_strings = <<>>
    /\ arb_data = <<>> /\ aidx = 1
    /\ l10n = "none"
    /\ files_to_update = <<>> /\ ridx = 1 /\ string_locations = <<>> /\ sidx = 1
    /\ file_modified = FALSE /\ total_replacements = 0
    /\ report = NoReport

Init ==
    /\ \E a \in TextsA, b \in TextsB :
          files = [p \in Paths |-> IF p = FileA THEN a ELSE IF p = FileB THEN b ELSE TextG]
    /\ arb \in ArbPool
    /\ pc = "start"
    /\ runs = 1
    /\ Fresh
    /\ files_before = files
    /\ arb_before = arb
    /\ prev = "none"
    /\ written = {}
    /\ replaced = {}
    /\ key_calls = {}

\* The texts of lib/a.dart in the runs on one construct each: long
\* sentences, keys that need a prefix, a suffix or the fallback, short and
\* numeric literals, literals with parentheses and braces, concatenations,
\* literals in the other kind of quotes, literals over two and three lines,
\* a literal over two lines next to another occurrence, a line that two anchor
\* patterns match, no literal.
LiteralFiles == {
    <<"T","e","x","t","(","'","G","o"," ","u","p"," ","a"," ","b"," ","c"," ","d"," ","4","5",
      "4","6"," ","e"," ","n","o","w","'",")","\n","T","e","x","t","(","'","G","o"," ","u","p",
      " ","a"," ","b"," ","c"," ","d"," ","4","6","0","7"," ","e"," ","n","o","w","'",")","\n">>,
    <<"T","e","x","t","(","'","P","u","t"," ","t","h","e"," ","r","e","d"," ","b","o","x",
      " ","o","n"," ","t","o","p"," ","o","f"," ","i","t"," ","a","l","l"," ","f","o","r",
      " ","m","e","'",")","\n">>,
    <<"T","e","x","t","(","'","1"," ","a","p","p","l","e","'",")","\n",
      "T","e","x","t","(","'","I","n","'",")","\n",
      "T","e","x","t","(","'","~","~","'",")","\n">>,
    <<"l","a","b","e","l",":"," ","'","o","k","'",",","\n">>,
    <<"l","a","b","e","l",":"," ","'","O","k","'",",","\n">>,
    <<"T","e","x","t","(","'","4","2","'",")","\n">>,
    <<"T","e","x","t","(","'","A","'",")","\n">>,
    <<"T","e","x","t","(","'","H","i"," ","{","y","o","u","}","!","'",")","\n">>,
    <<"T","e","x","t","(","'","C","a","l","l"," ","f","(",")"," ","$","{","x","}","'",")","\n">>,
    <<"T","e","x","t","(","'","C","a","l","l"," ","(","n","o","w",")","'",")","\n">>,
    <<"T","e","x","t","(","'","'","'","A","b","'","'","'"," ","+"," ","n",")","\n">>,
    <<"\"","i","t","'","s"," ","\""," ","+"," ","n","\n">>,
    <<"'","H","i"," ","'"," ","+"," ","n","\n">>,
    <<"T","e","x","t","(","\"","D","o","n","'","t"," ","g","o","\"",")","\n">>,
    <<"T","e","x","t","(","\"","a"," ","'","b","'"," ","c","\"",")","\n">>,
    <<"T","o","o","l","t","i","p","(","m","e","s","s","a","g","e",":"," ","\"","D","o","n","'","t"," ","g","o","\"",")","\n">>,
    <<"T","e","x","t","(","'","I","t","\\","'","s"," ","o","k","'",")","\n">>,
    <<"T","e","x","t","(","'","N","o"," ","e","n","d",")","\n">>,
    <<"T","e","x","t","(","'","'","'","A","b","\n","c","d","'","'","'",")","\n">>,
    <<"T","e","x","t","(","'","'","'","A","b","\n","m","i","d","\n","c","d","'","'","'",")","\n">>,
    <<"T","e","x","t","(","'","H","e","l","l","o","!","'",")","\n","T","e","x","t","(","'",
      "'","'","A","b","\n","c","d","'","'","'",")","\n">>,
    <<"T","e","x","t","(","'","'","'","A","b","\n","c","d","'","'","'",")","\n","'","H","i",
      " ","'"," ","+"," ","n","\n">>,
    <<"i","n","t"," ","x",";","\n">>,
    <<"T","e","x","t","(","'","H","e","l","l","o","!","'",")","\n",
      "S","e","l","e","c","t","a","b","l","e","T","e","x","t","(","'","S","e","l"," ","m","e","'",")","\n">>,
    <<"T","e","x","t","(","'","H","e","l","l","o","!","'",")","\n">> }

\* The state before the first run on a tree whose lib/a.dart is one of
\* LiteralFiles.
InitLiterals ==
    /\ \E a \in LiteralFiles :
          files = [p \in Paths |-> IF p = FileA THEN a
                                   ELSE IF p = FileB THEN <<"i","n","t"," ","x",";","\n">>
                                   ELSE TextG]
    /\ arb \in ArbPool
    /\ pc = "start"
    /\ runs = 1
    /\ Fresh
    /\ files_before = files
    /\ arb_before = arb
    /\ prev = "none"
    /\ written = {}
    /\ replaced = {}
    /\ key_calls = {}

\* ------------------------------------------------------------ scan_codebase
\* run() step 1 begins: scan_codebase lists the Dart files.
ScanCodebaseStart ==
    /\ pc = "start"
    /\ \E order \in FileOrders : dart_files' = order
    /\ fidx' = 1
    /\ total_files' = 0
    /\ all_strings' = <<>>
    /\ all_unprocessed_strings' = <<>>
    /\ pc' = "scan"
    /\ UNCHANGED <<diskVars, runs, findVars, sepVars, addVars, l10n, replaceVars, report,
                   histVars, writeVars, key_calls>>

\* scan_codebase: a generated file is counted and skipped.
ScanSkipGenerated ==
    /\ pc = "scan"
    /\ fidx <= Len(dart_files)
    /\ is_generated_file(dart_files[fidx])
    /\ total_files' = total_files + 1
    /\ fidx' = fidx + 1
    /\ UNCHANGED <<diskVars, pc, runs, dart_files, all_strings, all_unprocessed_strings,
                   findVars, sepVars, addVars, l10n, replaceVars, report, histVars, writeVars, key_calls>>

\* find_user_facing_strings opens the file and reads its lines.  (Its own
\* test of is_generated_file is false here: scan_codebase has made it.)
FindOpen ==
    /\ pc = "scan"
    /\ fidx <= Len(dart_files)
    /\ ~is_generated_file(dart_files[fidx])
    /\ total_files' = total_files + 1
    /\ lines' = readlines(files[dart_files[fidx]])
    /\ i' = 0
    /\ results' = <<>>
    /\ unprocessed_results' = <<>>
    /\ pc' = "find"
    /\ UNCHANGED <<diskVars, runs, dart_files, fidx, all_strings, all_unprocessed_strings,
                   sepVars, addVars, l10n, replaceVars, report, histVars, writeVars, key_calls>>

\* find_user_facing_strings: one iteration of the while loop.
FindStep ==
    /\ pc = "find"
    /\ i < Len(lines)
    /\ \E r \in {find_step(dart_files[fidx], lines, i)} :
           /\ results' = results \o r.results
           /\ unprocessed_results' = unprocessed_results \o r.unprocessed
           /\ i' = r.i
           /\ key_calls' = key_calls \cup
                {[string |-> r.results[n].string, key |-> r.results[n].key_name,
                  run |-> runs, by |-> "find_user_facing_strings"] : n \in 1..Len(r.results)}
    /\ UNCHANGED <<diskVars, pc, runs, scanVars, lines, sepVars, addVars, l10n,
                   replaceVars, report, histVars, writeVars>>

\* find_user_facing_strings returns; scan_codebase extends its lists.
FindClose ==
    /\ pc = "find"
    /\ i >= Len(lines)
    /\ all_strings' = all_strings \o results
    /\ all_unprocessed_strings' = all_unprocessed_strings \o unprocessed_results
    /\ fidx' = fidx + 1
    /\ lines' = <<>> /\ i' = 0 /\ results' = <<>> /\ unprocessed_results' = <<>>
    /\ pc' = "scan"
    /\ UNCHANGED <<diskVars, runs, dart_files, total_files, sepVars, addVars, l10n,
                   replaceVars, report, histVars, writeVars, key_calls>>

\* run() step 2: separate_strings, with read_existing_translations.
SeparateStrings ==
    /\ pc = "scan"
    /\ fidx > Len(dart_files)
    /\ LET existing == IF arb.exists THEN existing_texts(arb.data) ELSE {}
           r == separate_from(all_strings, 1, {}, existing)
       IN  /\ new_strings' = r.new_strings
           /\ existing_strings' = r.existing_strings
    /\ pc' = "add"
    /\ UNCHANGED <<diskVars, runs, scanVars, findVars, addVars, l10n, replaceVars, report,
                   histVars, writeVars, key_calls>>

\* ------------------------------------------------------- add_strings_to_arb
\* add_strings_to_arb returns at once when there is no new string.
AddNothing ==
    /\ pc = "add"
    /\ new_strings = <<>>
    /\ pc' = "fix"
    /\ UNCHANGED <<diskVars, runs, scanVars, findVars, sepVars, addVars, l10n, replaceVars,
                   report, histVars, writeVars, key_calls>>

\* add_strings_to_arb reads the ARB file, when there is one.
AddRead ==
    /\ pc = "add"
    /\ new_strings # <<>>
    /\ arb_data' = IF arb.exists THEN arb.data ELSE <<>>
    /\ aidx' = 1
    /\ pc' = "add_loop"
    /\ UNCHANGED <<diskVars, runs, scanVars, findVars, sepVars, l10n, replaceVars, report,
                   histVars, writeVars, key_calls>>

\* add_strings_to_arb: one iteration of the loop over new_strings.
AddString ==
    /\ pc = "add_loop"
    /\ aidx <= Len(new_strings)
    /\ arb_data' = add_string(arb_data, new_strings[aidx])
    /\ key_calls' = key_calls \cup
            {[string |-> new_strings[aidx],
              key |-> generate_key_from_string(new_strings[aidx]),
              run |-> runs, by |-> "add_strings_to_arb"]}
    /\ aidx' = aidx + 1
    /\ UNCHANGED <<diskVars, pc, runs, scanVars, findVars, sepVars, l10n, replaceVars,
                   report, histVars, writeVars>>

\* add_strings_to_arb writes the data back.
AddWrite ==
    /\ pc = "add_loop"
    /\ aidx > Len(new_strings)
    /\ arb' = [exists |-> TRUE, data |-> arb_data]
    /\ arb_data' = <<>>
    /\ aidx' = 1
    /\ pc' = "fix"
    /\ UNCHANGED <<files, runs, scanVars, findVars, sepVars, l10n, replaceVars, report,
                   histVars, writeVars, key_calls>>

\* add_strings_to_arb cannot open the ARB file for writing (its directory is
\* missing, the file is read-only): the error is caught and printed, the file
\* is restored from its backup when it has one, and the method returns as
\* after a write.  The ARB file is what it was.
AddWriteError ==
    /\ pc = "add_loop"
    /\ aidx > Len(new_strings)
    /\ arb_data' = <<>>
    /\ aidx' = 1
    /\ pc' = "fix"
    /\ UNCHANGED <<diskVars, runs, scanVars, findVars, sepVars, l10n, replaceVars, report,
                   histVars, writeVars, key_calls>>

\* run() step 4.5: fix_existing_arb_strings.
FixExistingArbStrings ==
    /\ pc = "fix"
    /\ arb' = IF arb.exists THEN [exists |-> TRUE, data |-> fix_arb_data(arb.data)]
              ELSE arb
    /\ pc' = "gen"
    /\ UNCHANGED <<files, runs, scanVars, findVars, sepVars, addVars, l10n, replaceVars,
                   report, histVars, writeVars, key_calls>>

\* -------------------------------------------------------- flutter gen-l10n
\* run() step 5: run_flutter_gen_l10n returns True or False (a non-zero exit).
GenL10n ==
    /\ pc = "gen"
    /\ new_strings # <<>> \/ all_strings # <<>>
    /\ \E success \in BOOLEAN : l10n' = IF success THEN "ok" ELSE "failed"
    /\ pc' = "replace_start"
    /\ UNCHANGED <<diskVars, runs, scanVars, findVars, sepVars, addVars, replaceVars,
                   report, histVars, writeVars, key_calls>>

\* The executable cannot be launched: subprocess.run raises an error that is
\* no CalledProcessError, which nothing in run() catches.
GenL10nNoLaunch ==
    /\ pc = "gen"
    /\ new_strings # <<>> \/ all_strings # <<>>
    /\ l10n' = "nolaunch"
    /\ pc' = "crashed"
    /\ UNCHANGED <<diskVars, runs, scanVars, findVars, sepVars, addVars, replaceVars,
                   report, histVars, writeVars, key_calls>>

\* run() step 5 is skipped when no string was found.
GenL10nSkip ==
    /\ pc = "gen"
    /\ new_strings = <<>> /\ all_strings = <<>>
    /\ l10n' = "skipped"
    /\ pc' = "replace_start"
    /\ UNCHANGED <<diskVars, runs, scanVars, findVars, sepVars, addVars, replaceVars,
                   report, histVars, writeVars, key_calls>>

\* ------------------------------------------------- replace_strings_in_files
\* run() step 6 begins: the occurrences are grouped by file.
ReplaceStart ==
    /\ pc = "replace_start"
    /\ files_to_update' = group_by_file(all_strings, <<>>)
    /\ ridx' = 1
    /\ total_replacements' = 0
    /\ pc' = "replace"
    /\ UNCHANGED <<diskVars, runs, scanVars, findVars, sepVars, addVars, l10n,
                   string_locations, sidx, file_modified, report, histVars, writeVars, key_calls>>

\* The next file is read and its occurrences are sorted.
ReplaceOpen ==
    /\ pc = "replace"
    /\ ridx <= Len(files_to_update)
    /\ lines' = readlines(files[files_to_update[ridx].key])
    /\ string_locations' = sort_by_line_desc(files_to_update[ridx].value)
    /\ sidx' = 1
    /\ file_modified' = FALSE
    /\ pc' = "replace_file"
    /\ UNCHANGED <<diskVars, runs, scanVars, i, results, unprocessed_results, sepVars,
                   addVars, l10n, files_to_update, ridx, total_replacements, report,
                   histVars, writeVars, key_calls>>

\* One occurrence of the file is replaced, or not.
ReplaceStep ==
    /\ pc = "replace_file"
    /\ sidx <= Len(string_locations)
    /\ \E r \in {replace_one(lines, string_locations[sidx])} :
           /\ lines' = r.lines
           /\ file_modified' = (file_modified \/ r.made)
           /\ total_replacements' = total_replacements + (IF r.made THEN 1 ELSE 0)
           /\ replaced' = IF r.made THEN replaced \cup {files_to_update[ridx].key}
                          ELSE replaced
    /\ sidx' = sidx + 1
    /\ UNCHANGED <<diskVars, pc, runs, scanVars, i, results, unprocessed_results, sepVars,
                   addVars, l10n, files_to_update, ridx, string_locations, report,
                   histVars, written, key_calls>>

\* A variant of ReplaceClose that writes the file back whether a replacement
\* was made in it or not.
ReplaceCloseAlways ==
    /\ pc = "replace_file"
    /\ sidx > Len(string_locations)
    /\ files' = [files EXCEPT ![files_to_update[ridx].key] = writelines(lines)]
    /\ written' = written \cup {<<files_to_update[ridx].key, "replace_strings_in_files">>}
    /\ ridx' = ridx + 1
    /\ lines' = <<>> /\ string_locations' = <<>> /\ sidx' = 1 /\ file_modified' = FALSE
    /\ pc' = "replace"
    /\ UNCHANGED <<arb, runs, scanVars, i, results, unprocessed_results, sepVars, addVars,
                   l10n, files_to_update, total_replacements, report, histVars, replaced,
                   key_calls>>

\* The file is written back if a replacement was made in it.
ReplaceClose ==
    /\ pc = "replace_file"
    /\ sidx > Len(string_locations)
    /\ files' = IF file_modified
                THEN [files EXCEPT ![files_to_update[ridx].key] = writelines(lines)]
                ELSE files
    /\ written' = IF file_modified
                  THEN written \cup {<<files_to_update[ridx].key, "replace_strings_in_files">>}
                  ELSE written
    /\ ridx' = ridx + 1
    /\ lines' = <<>> /\ string_locations' = <<>> /\ sidx' = 1 /\ file_modified' = FALSE
    /\ pc' = "replace"
    /\ UNCHANGED <<arb, runs, scanVars, i, results, unprocessed_results, sepVars, addVars,
                   l10n, files_to_update, total_replacements, report, histVars, replaced,
                   key_calls>>

\* run() step 7: generate_report (the numbers of its summary).
GenerateReport ==
    /\ pc = "replace"
    /\ ridx > Len(files_to_update)
    /\ report' = [new |-> Len(new_strings), existing |-> Len(existing_strings),
                  replaced |-> total_replacements,
                  unprocessed |-> Len(all_unprocessed_strings)]
    /\ files_to_update' = group_by_file(todo_candidates(all_unprocessed_strings), <<>>)
    /\ ridx' = 1
    /\ pc' = "todo"
    /\ UNCHANGED <<diskVars, runs, scanVars, findVars, sepVars, addVars, l10n,
                   string_locations, sidx, file_modified, total_replacements, histVars, writeVars,
                   key_calls>>

\* ------------------------------ add_todo_comments_for_unprocessed_strings
\* run() step 8, one file: the TODO comments are inserted and the file is
\* written back if one was inserted.
TodoFile ==
    /\ pc = "todo"
    /\ ridx <= Len(files_to_update)
    /\ LET file_path == files_to_update[ridx].key
           old == readlines(files[file_path])
           new == insert_todos(old, sort_by_line_desc(files_to_update[ridx].value))
       IN  /\ files' = IF new # old THEN [files EXCEPT ![file_path] = writelines(new)]
                       ELSE files
           /\ written' = IF new # old
                         THEN written \cup {<<file_path,
                                                "add_todo_comments_for_unprocessed_strings">>}
                         ELSE written
    /\ ridx' = ridx + 1
    /\ UNCHANGED <<arb, pc, runs, scanVars, findVars, sepVars, addVars, l10n,
                   files_to_update, string_locations, sidx, file_modified,
                   total_replacements, report, histVars, replaced, key_calls>>

\* run() returns.
RunDone ==
    /\ pc = "todo"
    /\ ridx > Len(files_to_update)
    /\ files_to_update' = <<>>
    /\ ridx' = 1
    /\ pc' = "done"
    /\ UNCHANGED <<diskVars, runs, scanVars, findVars, sepVars, addVars, l10n,
                   string_locations, sidx, file_modified, total_replacements, report,
                   histVars, writeVars, key_calls>>

\* The script is run again on the tree and the catalog that the last run left.
RunAgain ==
    /\ pc \in {"done", "crashed"}
    /\ runs < MaxRuns
    /\ runs' = runs + 1
    /\ pc' = "start"
    /\ dart_files' = <<>> /\ fidx' = 1 /\ total_files' = 0
    /\ all_strings' = <<>> /\ all_unprocessed_strings' = <<>>
    /\ lines' = <<>> /\ i' = 0 /\ results' = <<>> /\ unprocessed_results' = <<>>
    /\ new_strings' = <<>> /\ existing_strings' = <<>>
    /\ arb_data' = <<>> /\ aidx' = 1
    /\ l10n' = "none"
    /\ files_to_update' = <<>> /\ ridx' = 1 /\ string_locations' = <<>> /\ sidx' = 1
    /\ file_modified' = FALSE /\ total_replacements' = 0
    /\ report' = NoReport
    /\ files_before' = files
    /\ arb_before' = arb
    /\ prev' = pc
    /\ written' = {}
    /\ replaced' = {}
    /\ UNCHANGED <<diskVars, key_calls>>

Next ==
    \/ ScanCodebaseStart
    \/ ScanSkipGenerated
    \/ FindOpen
    \/ FindStep
    \/ FindClose
    \/ SeparateStrings
    \/ AddNothing
    \/ AddRead
    \/ AddString
    \/ AddWrite
    \/ FixExistingArbStrings
    \/ GenL10n
    \/ GenL10nNoLaunch
    \/ GenL10nSkip
    \/ ReplaceStart
    \/ ReplaceOpen
    \/ ReplaceStep
    \/ ReplaceClose
    \/ GenerateReport
    \/ TodoFile
    \/ RunDone
    \/ RunAgain

Spec == Init /\ [][Next]_vars

\* The runs on the trees of LiteralFiles.
SpecLiterals == InitLiterals /\ [][Next]_vars

\* The runs on the trees of LiteralFiles in which the write of the ARB file
\* by add_strings_to_arb may fail.
NextCatalogError == Next \/ AddWriteError

SpecCatalogError == InitLiterals /\ [][NextCatalogError]_vars

\* ------------------------------------------------------------ properties
\* The occurrences that the scan of the current run has accepted and excluded.
Accepted == {all_strings[n] : n \in 1..Len(all_strings)}
Excluded == {all_unprocessed_strings[n] : n \in 1..Len(all_unprocessed_strings)}
AcceptedIn(p) == {a \in Accepted : a.file_path = p}
ExcludedIn(p) == {u \in Excluded : u.file_path = p}

\* The keys under which the catalog data holds a text: the keys whose value is
\* the text, and the keys whose metadata entry says they were generated for it.
KeysOfText(data, text) ==
    {data[j].key : j \in {n \in 1..Len(data) : data[n].value = ArbStr(text)}}
    \cup {Tail(data[j].key) : j \in {n \in 1..Len(data) :
            /\ StartsAt(data[n].key, AtSign, 1)
            /\ data[n].value = ArbMeta(<<"A","u","t","o","-","g","e","n","e","r","a","t","e","d"," ","f","o","r",":"," ">> \o text)}}

\* C1 (Uniqueness): two occurrences accepted in one run whose texts differ have
\* different keys, both the key_name their rewritten call sites reference and
\* the key under which the catalog holds the text at the end of the run.
C1_Uniqueness ==
    \A a, b \in Accepted :
        a.string # b.string =>
            /\ a.key_name # b.key_name
            /\ pc = "done" =>
                  KeysOfText(arb.data, a.string) \cap KeysOfText(arb.data, b.string) = {}

\* C2 (Canonical mapping): the occurrences accepted in one run that have the
\* same text have the same key, whatever their file, line and anchor kind.
C2_CanonicalMapping ==
    \A a, b \in Accepted : a.string = b.string => a.key_name = b.key_name

\* Two accepted occurrences of one text in different files, on different lines
\* and under different anchor kinds.
C2_Witness ==
    \E a, b \in Accepted :
        /\ a.string = b.string
        /\ a.file_path # b.file_path
        /\ a.line_number # b.line_number
        /\ a.string_type # b.string_type

\* C3 (lookupOrCreate reuse): at the end of a run, an accepted occurrence whose
\* text the catalog held before the run has got no new entry, and the key its
\* rewrite references is the key of the entry that was there.
C3_LookupOrCreateReuse ==
    pc = "done" =>
        \A a \in Accepted :
            a.string \in existing_texts(arb_before.data) =>
                /\ KeysOfText(arb.data, a.string) = KeysOfText(arb_before.data, a.string)
                /\ a.key_name \in KeysOfText(arb_before.data, a.string)

\* C4 (Idempotence): a complete run that follows a complete run on the tree and
\* the catalog the first one left adds no catalog entry and makes no rewrite.
C4_Idempotence ==
    (runs > 1 /\ prev = "done" /\ pc = "done") =>
        /\ Len(arb.data) = Len(arb_before.data)
        /\ report.new = 0
        /\ report.replaced = 0

\* C5 (Catalog append-only): during a run every key the catalog had before the
\* run keeps its value, and no key that the run adds holds a text value that
\* the catalog held before the run.
C5_AppendOnly ==
    /\ \A j \in 1..Len(arb_before.data) :
          /\ HasKey(arb.data, arb_before.data[j].key)
          /\ Get(arb.data, arb_before.data[j].key) = arb_before.data[j].value
    /\ \A j \in 1..Len(arb.data) :
          (~HasKey(arb_before.data, arb.data[j].key) /\ arb.data[j].value.str)
              => arb.data[j].value.s \notin existing_texts(arb_before.data)

C7_OnlyLiteralReplaced(old, new, text, replacement) ==
    \E a \in 1..Len(old) :
        /\ old[a] \in Quotes
        /\ StartsAt(old, text, a + 1)
        /\ a + Len(text) + 1 <= Len(old)
        /\ old[a + Len(text) + 1] = old[a]
        /\ new = SubSeq(old, 1, a - 1) \o replacement
                 \o SubSeq(old, a + Len(text) + 2, Len(old))

\* C7 (Single-line rewrite): a step of replace_strings_in_files that rewrites
\* the line of a single-line occurrence replaces the quoted literal by the
\* reference expression and leaves the text before it and the separator after
\* it as they were.
C7_SeparatorPreserved ==
    [][ (/\ pc = "replace_file"
         /\ sidx' = sidx + 1
         /\ ~string_locations[sidx].is_multiline
         /\ lines' # lines)
        => C7_OnlyLiteralReplaced(
              lines[string_locations[sidx].line_number],
              lines'[string_locations[sidx].line_number],
              string_locations[sidx].string,
              <<"c","o","n","t","e","x","t",".","t","r","a","n","s","l","a","t","i","o","n","s",".">> \o string_locations[sidx].key_name) ]_vars

\* Line k (counted from 0) of ls opens a multi-line literal that no line
\* closes: the rest of the line and the lines after it do not hold the
\* delimiter.
C8_UnterminatedAt(ls, k) ==
    LET d == get_multiline_delimiter(ls[k + 1])
    IN  /\ d # <<>>
        /\ ~Contains(From(ls[k + 1], Find(ls[k + 1], d) + Len(d)), d)
        /\ \A c \in (k + 2)..Len(ls) : ~Contains(ls[c], d)

\* C8 (Unterminated multi-line literal): an iteration of the scan loop on a
\* line that opens a multi-line literal that no line closes appends no accepted
\* and no excluded occurrence (so that no catalog entry comes from it) and
\* leaves the cursor at or past the end of the file.
C8_Unterminated ==
    [][ (/\ pc = "find"
         /\ pc' = "find"
         /\ ~is_comment_line(lines[i + 1])
         /\ C8_UnterminatedAt(lines, i))
        => (/\ results' = results
            /\ unprocessed_results' = unprocessed_results
            /\ i' >= Len(lines)) ]_vars

\* The normalization that C9 states, from position j of s: a marker made of a
\* dollar sign, an opening brace, a name and a closing brace becomes the name
\* between single braces, and every other brace is doubled.
RECURSIVE C9_NormalizedFrom(_, _)
C9_NormalizedFrom(s, j) ==
    IF j > Len(s) THEN <<>>
    ELSE LET n == RunLen(s, j + 2, One(WordCh))
         IN  IF /\ StartsAt(s, <<"$", "{">>, j)
                /\ n > 0
                /\ j + 2 + n <= Len(s)
                /\ s[j + 2 + n] = "}"
             THEN <<"{">> \o SubSeq(s, j + 2, j + 1 + n) \o <<"}">>
                  \o C9_NormalizedFrom(s, j + 3 + n)
             ELSE (IF s[j] = "{" THEN <<"{", "{">>
                   ELSE IF s[j] = "}" THEN <<"}", "}">>
                   ELSE <<s[j]>>)
                  \o C9_NormalizedFrom(s, j + 1)

\* C9 (Normalization): the value that add_strings_to_arb stores for a new text
\* is the text with every interpolation marker turned into a placeholder and
\* every other brace escaped.
C9_Normalization ==
    pc = "add_loop" =>
        \A n \in 1..(aidx - 1) :
            \E j \in 1..Len(arb_data) :
                arb_data[j].value = ArbStr(C9_NormalizedFrom(new_strings[n], 1))

C11_CompilerIndependence == [][pc = "gen" => pc' = "replace_start"]_vars

\* The words after the third one among which the last meaningful word of a
\* long sentence is looked for.
C12_LastMeaningful(string) ==
    last_meaningful_word(SubSeq(words_of(string), 4, Len(words_of(string))))

\* C12 (Long-sentence distinctness): two distinct texts of more than 8 words
\* each that share their first three words and their last meaningful word are
\* given different keys by generate_key_from_string.
C12_LongSentenceDistinct ==
    \A a, b \in key_calls :
        ( /\ a.string # b.string
          /\ Len(words_of(a.string)) > 8
          /\ Len(words_of(b.string)) > 8
          /\ SubSeq(words_of(a.string), 1, 3) = SubSeq(words_of(b.string), 1, 3)
          /\ C12_LastMeaningful(a.string) = C12_LastMeaningful(b.string) )
        => a.key # b.key

\* The keys of a catalog, and base, base_1, base_2, ... for n = 0, 1, 2, ...
C13_Keys(data) == {data[n].key : n \in 1..Len(data)}
C13_Suffixed(base, n) == IF n = 0 THEN base ELSE base \o <<"_">> \o IntStr(n)

\* C13 (Catalog key uniqueness on insertion): each insertion of
\* add_strings_to_arb stores the new text under a key that was not in the
\* catalog before it: the base key if it is free, otherwise base_n for the
\* smallest n >= 1 such that base_n is free.  The entries the catalog held
\* before the insertion are kept as they were and the keys stay pairwise
\* distinct.
C13_KeyUniqueOnInsertion ==
    [][(pc = "add_loop" /\ aidx <= Len(new_strings) /\ aidx' = aidx + 1) =>
        \E n \in 0..Len(arb_data) :
            /\ \A j \in 0..(n - 1) :
                  C13_Suffixed(generate_key_from_string(new_strings[aidx]), j) \in C13_Keys(arb_data)
            /\ C13_Suffixed(generate_key_from_string(new_strings[aidx]), n) \notin C13_Keys(arb_data)
            /\ \E m \in 1..Len(arb_data') :
                  /\ arb_data'[m].key = C13_Suffixed(generate_key_from_string(new_strings[aidx]), n)
                  /\ arb_data'[m].value.str
            /\ {arb_data'[m].key : m \in {r \in 1..Len(arb_data') : arb_data'[r].value.str}}
                  = {arb_data[m].key : m \in {r \in 1..Len(arb_data) : arb_data[r].value.str}}
                    \cup {C13_Suffixed(generate_key_from_string(new_strings[aidx]), n)}
            /\ Len(arb_data') >= Len(arb_data)
            /\ \A m \in 1..Len(arb_data) : arb_data'[m] = arb_data[m]
            /\ \A m, r \in 1..Len(arb_data') : arb_data'[m].key = arb_data'[r].key => m = r
      ]_vars

\* An insertion has stored a text under base_1 because base was taken.
C13_Witness ==
    /\ pc = "add_loop"
    /\ aidx > 1
    /\ \E base \in C13_Keys(arb_data) :
          /\ C13_Suffixed(base, 1) \in C13_Keys(arb_data)
          /\ C13_Suffixed(base, 1) \notin C13_Keys(arb.data)
          /\ base = generate_key_from_string(new_strings[aidx - 1])

\* The words of a text as C14 states them: the characters that are letters,
\* digits or whitespace, the letters in lower case, cut at the whitespace.
C14_Words(text) ==
    LET kept == SelectSeq(text, LAMBDA c : c \in Alpha \cup Digit \cup Space)
        s == [j \in 1..Len(kept) |-> IF kept[j] \in Upper THEN LowerOf[kept[j]] ELSE kept[j]]
        starts == {j \in 1..Len(s) : s[j] \notin Space /\ (j = 1 \/ s[j - 1] \in Space)}
        start(n) == CHOOSE j \in starts : Cardinality({r \in starts : r < j}) = n - 1
        stop(j) == CHOOSE e \in j..Len(s) :
                      /\ \A r \in j..e : s[r] \notin Space
                      /\ e = Len(s) \/ s[e + 1] \in Space
    IN  [n \in 1..Cardinality(starts) |-> SubSeq(s, start(n), stop(start(n)))]

\* The words ws joined by underscores.
C14_Underscored(ws) ==
    LET upto[n \in 0..Len(ws)] ==
            IF n = 0 THEN <<>>
            ELSE IF n = 1 THEN ws[1]
            ELSE upto[n - 1] \o <<"_">> \o ws[n]
    IN  upto[Len(ws)]

\* The base key that C14 states for a text.
C14_Expected(text) ==
    LET key(ws) ==
            LET rest == {j \in 4..Len(ws) : Len(ws[j]) > 2 /\ ws[j] \notin common_words}
                last == IF rest = {} THEN <<>>
                        ELSE <<ws[CHOOSE j \in rest : \A r \in rest : r <= j]>>
            IN  IF Len(ws) <= 8 THEN C14_Underscored(ws)
                ELSE C14_Underscored(SubSeq(ws, 1, 3) \o last) \o <<"_">> \o md5_hex6(text)
    IN  key(C14_Words(text))

\* C14 (Base key derivation): the key of a text of 8 or fewer words is all
\* its words joined by underscores; the key of a text of more than 8 words is
\* its first 3 words, then the last of the remaining words that is longer
\* than 2 characters and no stop word, joined by underscores, then an
\* underscore and the first 6 hex characters of the hash of the text.  The
\* keys that the identifier checks change afterwards (an empty key, a leading
\* digit, a reserved word) are left to C15.
C14_BaseKeyDerivation ==
    \A c \in key_calls :
        LET holds(expected) ==
                (expected # <<>> /\ expected[1] \notin Digit /\ expected \notin dart_keywords)
                => c.key = expected
        IN  holds(C14_Expected(c.string))

\* A key was made for a text of more than 8 words whose last words are passed
\* over, and it is the key C14 states.
C14_Witness ==
    \E c \in key_calls :
        /\ Len(C14_Words(c.string)) > 8
        /\ C14_Words(c.string)[Len(C14_Words(c.string))] \in common_words
           \/ Len(C14_Words(c.string)[Len(C14_Words(c.string))]) <= 2
        /\ c.key = C14_Expected(c.string)

\* C15 (Key validity): every key that generate_key_from_string returns is
\* non-empty, is a valid identifier (its first character a lowercase letter or
\* an underscore, all its characters in a-z, 0-9 and _) and is no reserved
\* word: a base key that starts with a digit gets the prefix key_, a base key
\* that is a reserved word gets the suffix _text, and an empty base key
\* becomes unknown_string.
C15_KeyValidity ==
    \A c \in key_calls :
        LET rules(base) ==
                /\ (base # <<>> /\ base[1] \in Digit) => c.key = <<"k","e","y","_">> \o base
                /\ base \in dart_keywords => c.key = base \o <<"_","t","e","x","t">>
                /\ base = <<>> => c.key = <<"u","n","k","n","o","w","n","_","s","t","r","i","n","g">>
        IN  /\ c.key # <<>>
            /\ c.key[1] \in Lower \cup {"_"}
            /\ \A j \in 1..Len(c.key) : c.key[j] \in Lower \cup Digit \cup {"_"}
            /\ c.key \notin dart_keywords
            /\ rules(C14_Expected(c.string))

\* Keys were made for a text whose base key starts with a digit, for one whose
\* base key is a reserved word and for one whose base key is empty.
C15_Witness ==
    /\ \E c \in key_calls : C14_Expected(c.string) # <<>> /\ C14_Expected(c.string)[1] \in Digit
    /\ \E c \in key_calls : C14_Expected(c.string) \in dart_keywords
    /\ \E c \in key_calls : C14_Expected(c.string) = <<>>

\* A literal of rule 1: shorter than 3 characters, or purely numeric.
C16_Short(string) ==
    \/ Len(string) < 3
    \/ string # <<>> /\ \A j \in 1..Len(string) : string[j] \in Digit

\* C16 (Classifier rule 1): a literal shorter than 3 characters, and a purely
\* numeric one, is classified too-short: it is never accepted, no key is made
\* for it, and when the classifier excludes it the reason is TOO_SHORT.
C16_TooShortRule ==
    /\ \A a \in Accepted : ~C16_Short(a.string)
    /\ \A c \in key_calls : ~C16_Short(c.string)
    /\ \A u \in Excluded :
          (C16_Short(u.string) /\ u.reason # "STRING_CONCATENATION") => u.reason = "TOO_SHORT"

\* Position j of string lies in an interpolation marker: between the dollar
\* sign of a ${ and the first closing brace after it.
C17_InMarker(string, j) ==
    \E p \in 1..j : \E q \in j..Len(string) :
        /\ p + 1 <= Len(string)
        /\ string[p] = "$" /\ string[p + 1] = "{"
        /\ q > p + 1 /\ string[q] = "}"
        /\ \A r \in (p + 2)..(q - 1) : string[r] # "}"

\* C17 (Classifier rule 6): a literal is accepted only if every parenthesis
\* and every brace in it belongs to an interpolation marker; a literal that
\* reaches rule 6 with a parenthesis or a brace outside a marker is excluded.
C17_CodeSyntaxRule ==
    \A a \in Accepted :
        \A j \in 1..Len(a.string) :
            a.string[j] \in {"(", ")", "{", "}"} => C17_InMarker(a.string, j)

\* C18 (Concatenation context): an iteration of the scan on a line that
\* is_string_concatenation recognizes accepts nothing and makes no key;
\* whatever it reports is excluded with the reason STRING_CONCATENATION and is
\* a literal of the line, the text between two quotes of one kind.
C18_ConcatenationContext ==
    [][(pc = "find" /\ i < Len(lines) /\ is_string_concatenation(lines[i + 1])) =>
        /\ results' = results
        /\ key_calls' = key_calls
        /\ \A n \in (Len(unprocessed_results) + 1)..Len(unprocessed_results') :
              /\ unprocessed_results'[n].reason = "STRING_CONCATENATION"
              /\ \E q \in Quotes :
                    Contains(lines[i + 1], <<q>> \o unprocessed_results'[n].string \o <<q>>)
      ]_vars

\* The literal that C19 states for a line, looked for from position from: the
\* text between the first quote at or after from and the first later quote of
\* the same kind that no backslash precedes; None without such a pair.
C19_Expected(line, from) ==
    LET opens == {j \in from..Len(line) : line[j] \in Quotes}
        literal(o) ==
            LET closes == {j \in (o + 1)..Len(line) : line[j] = line[o] /\ line[j - 1] # "\\"}
            IN  IF closes = {} THEN None
                ELSE Some(SubSeq(line, o + 1, (CHOOSE j \in closes : \A r \in closes : j <= r) - 1))
    IN  IF from = 0 \/ opens = {} THEN None
        ELSE literal(CHOOSE j \in opens : \A r \in opens : j <= r)

\* C19 (Single-line extraction): on each line of the file being scanned that
\* holds the anchor, extract_string_from_text_widget and
\* extract_string_from_tooltip_widget return the text between the literal's
\* opening quote and the first later unescaped quote of the same kind, also
\* when the literal holds quotes of the other kind, and nothing when no
\* closing quote is on the line.
C19_SingleLineExtraction ==
    pc = "find" =>
        \A n \in 1..Len(lines) :
            /\ Contains(lines[n], <<"T","e","x","t","(">>) =>
                  extract_string_from_text_widget(lines[n])
                      = C19_Expected(lines[n], Find(lines[n], <<"T","e","x","t","(">>))
            /\ ( /\ Contains(lines[n], <<"T","o","o","l","t","i","p","(">>)
                 /\ FindFrom(lines[n], <<"m","e","s","s","a","g","e",":">>,
                             Find(lines[n], <<"T","o","o","l","t","i","p","(">>)) # 0 ) =>
                  extract_string_from_tooltip_widget(lines[n])
                      = C19_Expected(lines[n],
                            FindFrom(lines[n], <<"m","e","s","s","a","g","e",":">>,
                                     Find(lines[n], <<"T","o","o","l","t","i","p","(">>)))

\* A line without its line terminator.
C20_Content(line) ==
    IF line # <<>> /\ line[Len(line)] = "\n" THEN SubSeq(line, 1, Len(line) - 1) ELSE line

\* The text that C20 states for the literal opened with delimiter d on line a
\* of ls and closed on line b: the content after the opening delimiter, the
\* content of the lines between, the content before the closing delimiter,
\* joined with one newline each and trimmed.
C20_Expected(ls, a, b, d) ==
    LET pieces == [k \in 1..(b - a + 1) |->
                      IF k = 1
                      THEN C20_Content(SubSeq(ls[a], Find(ls[a], d) + Len(d), Len(ls[a])))
                      ELSE IF k = b - a + 1
                      THEN SubSeq(ls[b], 1, Find(ls[b], d) - 1)
                      ELSE C20_Content(ls[a + k - 1])]
    IN  Strip(Join(<<"\n">>, pieces))

\* C20 (Multi-line extraction): an occurrence of the file being scanned whose
\* triple-quoted literal is opened on one line and closed on a later one has
\* the text C20_Expected and the range from the opening line to the
\* terminating line, the first later line that holds the delimiter.
C20_MultiLineExtraction ==
    pc = "find" =>
        \A o \in {results[n] : n \in 1..Len(results)}
                 \cup {unprocessed_results[n] : n \in 1..Len(unprocessed_results)} :
            ( /\ o.is_multiline
              /\ o.end_line_number > o.line_number
              /\ o.end_line_number <= Len(lines)
              /\ Contains(lines[o.end_line_number], get_multiline_delimiter(lines[o.line_number])) )
            => /\ o.line_number <= o.end_line_number
               /\ \A k \in (o.line_number + 1)..(o.end_line_number - 1) :
                     ~Contains(lines[k], get_multiline_delimiter(lines[o.line_number]))
               /\ o.string = C20_Expected(lines, o.line_number, o.end_line_number,
                                          get_multiline_delimiter(lines[o.line_number]))

\* C21 (Rewrite order): within one file replace_strings_in_files applies the
\* occurrences in descending order of their start line: the occurrence it
\* applies has no greater start line than any occurrence of the file applied
\* before it.
C21_RewriteOrder ==
    [][(pc = "replace_file" /\ sidx <= Len(string_locations) /\ sidx' = sidx + 1) =>
        \A n \in 1..(sidx - 1) :
            string_locations[n].line_number >= string_locations[sidx].line_number
      ]_vars

\* Two occurrences of one file, discovered in ascending order of their lines,
\* have both been applied.
C21_Witness ==
    /\ pc = "replace_file"
    /\ sidx > 2
    /\ \E m, n \in 1..Len(files_to_update[ridx].value) :
          /\ m < n
          /\ files_to_update[ridx].value[m].line_number
                < files_to_update[ridx].value[n].line_number

\* C22 (Multi-line rewrite, terminating line): when replace_strings_in_files
\* replaces a literal that is closed on a later line than it is opened, the
\* terminating line keeps what follows the closing delimiter: of that line
\* only the content up to and including the delimiter is removed.
C22_TerminatingLineTail ==
    [][( /\ pc = "replace_file" /\ sidx <= Len(string_locations) /\ sidx' = sidx + 1
         /\ total_replacements' = total_replacements + 1
         /\ string_locations[sidx].is_multiline
         /\ string_locations[sidx].end_line_number > string_locations[sidx].line_number
         /\ string_locations[sidx].end_line_number <= Len(lines)
         /\ Contains(lines[string_locations[sidx].end_line_number],
                     get_multiline_delimiter(lines[string_locations[sidx].line_number])) ) =>
        LET after(line, d) == SubSeq(line, Find(line, d) + Len(d), Len(line))
        IN  lines'[string_locations[sidx].end_line_number]
                = after(lines[string_locations[sidx].end_line_number],
                        get_multiline_delimiter(lines[string_locations[sidx].line_number]))
      ]_vars

\* The last line of the range of an occurrence: its end line when it is a
\* multi-line occurrence that has one, its start line otherwise.
C23_EndLine(loc) ==
    IF loc.is_multiline /\ loc.end_line_number # 0 THEN loc.end_line_number ELSE loc.line_number

\* C23 (Line slots are preserved): each replacement of
\* replace_strings_in_files, of a single-line or of a multi-line literal,
\* leaves the number of entries of the line list unchanged and changes no
\* entry outside the range from the start line to the end line of its
\* occurrence.
C23_LineSlotsPreserved ==
    [][(pc = "replace_file" /\ sidx <= Len(string_locations) /\ sidx' = sidx + 1) =>
        /\ Len(lines') = Len(lines)
        /\ \A k \in 1..Len(lines) :
              (k < string_locations[sidx].line_number \/ k > C23_EndLine(string_locations[sidx]))
              => lines'[k] = lines[k]
      ]_vars

\* A literal that spans two lines was replaced in a file in which another
\* occurrence is still pending, and the line of the pending occurrence still
\* holds its text.
C23_Witness ==
    /\ pc = "replace_file"
    /\ file_modified
    /\ sidx > 1
    /\ sidx <= Len(string_locations)
    /\ string_locations[sidx - 1].is_multiline
    /\ string_locations[sidx - 1].end_line_number > string_locations[sidx - 1].line_number
    /\ Len(lines) >= string_locations[sidx - 1].end_line_number
    /\ Contains(lines[string_locations[sidx].line_number], string_locations[sidx].string)

\* C24 (rewrite mismatch).  An occurrence is located in the line list when its
\* line still holds its text between two quotes or, for a multi-line
\* occurrence, when its start line still holds a triple-quote delimiter.
C24_Located(ls, loc) ==
    /\ loc.line_number <= Len(ls)
    /\ IF loc.is_multiline
       THEN \/ Contains(ls[loc.line_number], <<"'","'","'">>)
            \/ Contains(ls[loc.line_number], <<"\"","\"","\"">>)
       ELSE \E a, b \in Quotes : Contains(ls[loc.line_number], <<a>> \o loc.string \o <<b>>)

\* C24: a step of the loop over the occurrences of a file whose occurrence
\* cannot be located in its line leaves the line list unchanged and counts no
\* replacement; a step that counts no replacement changes no line; every step
\* moves on to the next occurrence, never backwards, and the loop leaves the
\* file only when every occurrence of the file has had its step.
C24_RewriteMismatch ==
    [][/\ (pc = "replace_file" /\ sidx <= Len(string_locations) /\ sidx' = sidx + 1
           /\ ~C24_Located(lines, string_locations[sidx]))
          => (/\ lines' = lines
              /\ total_replacements' = total_replacements
              /\ file_modified' = file_modified)
       /\ (pc = "replace_file" /\ pc' = "replace_file"
           /\ total_replacements' = total_replacements)
          => lines' = lines
       /\ (pc = "replace_file" /\ pc' = "replace_file")
          => (sidx' = sidx + 1 /\ string_locations' = string_locations)
       /\ (pc = "replace_file" /\ pc' # "replace_file")
          => sidx > Len(string_locations)]_vars

\* C24 happens: in the first file to update, an occurrence that could not be
\* located has had its step without a replacement, and another occurrence of
\* the file is attempted after it.
C24_Witness ==
    /\ pc = "replace_file" /\ ridx = 1
    /\ sidx > 1 /\ sidx <= Len(string_locations)
    /\ total_replacements < sidx - 1
    /\ \E n \in 1..(sidx - 1) : ~C24_Located(lines, string_locations[n])

\* C25 (generated-file exclusion).  lib/c.g.dart is a generated file that
\* holds a literal.  The scan never opens it: no step enters the loop over
\* the lines with it as the current file; no list of accepted or excluded
\* occurrences ever holds an occurrence of it; and no step changes its text.
C25_GeneratedExclusion ==
    [][/\ pc' = "find" => dart_files'[fidx'] # FileG
       /\ \A n \in 1..Len(results') : results'[n].file_path # FileG
       /\ \A n \in 1..Len(unprocessed_results') : unprocessed_results'[n].file_path # FileG
       /\ \A n \in 1..Len(all_strings') : all_strings'[n].file_path # FileG
       /\ \A n \in 1..Len(all_unprocessed_strings') :
              all_unprocessed_strings'[n].file_path # FileG
       /\ files'[FileG] = files[FileG]
       /\ \A w \in written' : w[1] # FileG
       /\ FileG \notin replaced']_vars

\* C25 happens: the scan has passed over the generated file, the run has
\* rewritten another file, and the generated file still holds its literal.
C25_Witness ==
    /\ fidx > Len(dart_files) /\ \E n \in 1..Len(dart_files) : dart_files[n] = FileG
    /\ replaced # {}
    /\ Contains(files[FileG], <<"T","e","x","t","(","'","H","e","l","l","o","!","'",")">>)

\* C26 (reference integrity): when a step of replace_strings_in_files rewrites
\* an occurrence to a reference, the catalog (which no later step of the run
\* changes) holds the referenced key, and the value of that key is the
\* normalized text of the occurrence.
C26_ReferenceIntegrity ==
    [][(/\ pc = "replace_file" /\ sidx <= Len(string_locations) /\ sidx' = sidx + 1
        /\ total_replacements' = total_replacements + 1)
       => (/\ arb.exists
           /\ HasKey(arb.data, string_locations[sidx].key_name)
           /\ Get(arb.data, string_locations[sidx].key_name)
                 = ArbStr(C9_NormalizedFrom(string_locations[sidx].string, 1)))]_vars

\* C27 (catalog failure blocks rewriting): a step of replace_strings_in_files
\* rewrites an occurrence only when the catalog holds the entry of every new
\* string of the run, told by its description.
C27_CatalogBeforeRewrite ==
    [][(/\ pc = "replace_file" /\ sidx <= Len(string_locations) /\ sidx' = sidx + 1
        /\ total_replacements' = total_replacements + 1)
       => \A n \in 1..Len(new_strings) :
              /\ arb.exists
              /\ \E j \in 1..Len(arb.data) :
                    arb.data[j].value = ArbMeta(<<"A","u","t","o","-","g","e","n","e","r","a","t","e","d"," ","f","o","r",":"," ">> \o new_strings[n])]_vars

\* C28 (TODO placement).  The comment that names the unprocessed occurrence u.
C28_TodoComment(u) ==
    <<"/","/"," ","T","O","D","O","(","t","r","a","n","s","l","a","t","i","o","n",")",":"," ","T","r","a","n","s","l","a","t","e"," ","t","h","i","s"," ","s","t","r","i","n","g",":"," ","'">>
    \o u.string \o <<"'","\n">>

\* The lines ls hold the comment of u immediately before a line that holds the
\* text of u.
C28_Placed(ls, u) ==
    \E k \in 1..(Len(ls) - 1) : ls[k] = C28_TodoComment(u) /\ Contains(ls[k + 1], u.string)

\* C28: when add_todo_comments_for_unprocessed_strings has handled a file,
\* every occurrence of the file that gets a TODO comment has its comment
\* immediately before the line that holds its text, whatever
\* replace_strings_in_files did to the file before.
C28_TodoPlacement ==
    [][(pc = "todo" /\ ridx <= Len(files_to_update) /\ ridx' = ridx + 1)
       => \A n \in 1..Len(files_to_update[ridx].value) :
              C28_Placed(readlines(files'[files_to_update[ridx].key]),
                         files_to_update[ridx].value[n])]_vars

\* C29 (one occurrence per literal).  A line holds exactly one plain string
\* literal when two of its characters are quotes, both of the same kind.
C29_OneLiteral(line) ==
    \E a, b \in 1..Len(line) :
        /\ a < b /\ line[a] \in Quotes /\ line[b] = line[a]
        /\ \A k \in 1..Len(line) : line[k] \in Quotes => k \in {a, b}

\* C29: an iteration of the loop of find_user_facing_strings on a line that
\* holds exactly one string literal appends at most one occurrence, accepted
\* or excluded.
C29_OneOccurrencePerLiteral ==
    [][(/\ pc = "find" /\ pc' = "find" /\ i < Len(lines) /\ i' = i + 1
        /\ C29_OneLiteral(lines[i + 1]))
       => (Len(results') - Len(results))
          + (Len(unprocessed_results') - Len(unprocessed_results)) <= 1]_vars

\* C30 (scan termination): every iteration of the loop of
\* find_user_facing_strings starts with the cursor before the end of the
\* lines, leaves the lines as they are and strictly increases the cursor; so
\* the loop makes at most as many iterations as the file has lines.
C30_CursorIncreases ==
    [][(pc = "find" /\ pc' = "find")
       => (i < Len(lines) /\ lines' = lines /\ i' > i)]_vars

\* C30 happens: an iteration has moved the cursor from the first line of a
\* literal that spans several lines to the line after its last.
C30_Witness ==
    /\ pc = "find"
    /\ \E n \in 1..Len(results) :
          /\ results[n].is_multiline
          /\ results[n].end_line_number > results[n].line_number
          /\ i = results[n].end_line_number
          /\ i <= Len(lines)
====
